---- MODULE Spec2Model ----
(***************************************************************************)
(* anytype-friend: the reconciliation layer of Space (get, create and      *)
(* obtain), the relation value validator and the wire codec, modelled      *)
(* over a backend store of wire records.  Every RPC is one atomic step of  *)
(* the backend; the client code around an RPC belongs to that step.        *)
(*                                                                         *)
(* A record lists its fields in the order in which TLC keeps them, which   *)
(* is the order in which the names first appear in this module: a record   *)
(* is then in normal form as it is constructed, and two workers never      *)
(* reorder the fields of the same record.                                  *)
(***************************************************************************)
EXTENDS Integers, Sequences, FiniteSets, TLC

VARIABLES
    records,    \* the backend's store: a sequence of wire documents, record i has id i
    task        \* per client task: the API call it runs, its locals, the requests it
                \* has sent and its last result

vars == <<records, task>>

(***************************************************************************)
(* Bounds of the model                                                     *)
(***************************************************************************)
MaxRecords == 6     \* the number of records the store may hold

(***************************************************************************)
(* Results                                                                 *)
(***************************************************************************)
Ok(v) == [tag |-> "Ok", val |-> v]
Err(e) == [tag |-> "Err", err |-> e]
Some(v) == [tag |-> "Some", val |-> v]
None == [tag |-> "None"]
Panic == [tag |-> "Panic"]
Pending == [tag |-> "Pending"]

\* let v = x; F(v): x is computed once and F reads the value
Let(x, F(_)) == CHOOSE r \in {F(v) : v \in {x}} : TRUE

(***************************************************************************)
(* Strings are sequences of characters, so that the backend's "like"       *)
(* condition (a case-insensitive substring match) is computed.             *)
(***************************************************************************)
Lower(c) ==
    CASE c = "D" -> "d" [] c = "T" -> "t" [] c = "B" -> "b" [] c = "P" -> "p"
      [] OTHER -> c

ToLower(s) == [i \in 1..Len(s) |-> Lower(s[i])]

IsInfix(p, s) ==
    \E i \in 0..(Len(s) - Len(p)) : \A j \in 1..Len(p) : s[i + j] = p[j]

Digit == <<"1", "2", "3", "4", "5", "6", "7", "8", "9">>

(***************************************************************************)
(* prost_types::Value: src/src/prost_ext.rs                                *)
(***************************************************************************)
into_prost_String(s) == [val |-> s, kind |-> "String"]
into_prost_f64(n) == [val |-> n, kind |-> "Number"]
into_prost_bool(b) == [val |-> b, kind |-> "Bool"]
into_prost_Vec(vs) == [val |-> vs, kind |-> "List"]
\* a Value whose kind is None
EmptyValue == [val |-> 0, kind |-> "Empty"]

IncorrecKind(expected, received) ==
    [expected |-> expected, received |-> received, error |-> "IncorrecKind"]
MissingStructField(field) == [error |-> "MissingStructField", field |-> field]
KindIsEmpty == [error |-> "KindIsEmpty"]
InvalidEnumValue(n) == [error |-> "InvalidEnumValue", value |-> n]

try_from_prost_String(kind) ==
    IF kind.kind = "String" THEN Ok(kind.val)
    ELSE Err(IncorrecKind("String", kind.kind))

try_from_prost_f64(kind) ==
    IF kind.kind = "Number" THEN Ok(kind.val)
    ELSE Err(IncorrecKind("Number", kind.kind))

try_from_prost_bool(kind) ==
    IF kind.kind = "Bool" THEN Ok(kind.val)
    ELSE Err(IncorrecKind("Bool", kind.kind))

\* ObjectId: a CID printed as a string; an id n is the string "#n"
ObjectIdString(id) == <<"#", Digit[id]>>

into_prost_ObjectId(id) == into_prost_String(ObjectIdString(id))

try_from_prost_ObjectId(kind) ==
    LET string == try_from_prost_String(kind) IN
    IF string.tag # "Ok" THEN string
    ELSE IF Len(string.val) = 2 /\ string.val[1] = "#"
            /\ \E id \in 1..Len(Digit) : Digit[id] = string.val[2]
         THEN Ok(CHOOSE id \in 1..Len(Digit) : Digit[id] = string.val[2])
         ELSE Panic

\* a faulty list decoder: the elements that fail to decode are left out
RECURSIVE try_from_prost_ids_partial(_)
try_from_prost_ids_partial(values) ==
    IF values = <<>> THEN Ok(<<>>)
    ELSE LET first == IF Head(values).kind = "Empty" THEN Err(KindIsEmpty)
                      ELSE try_from_prost_ObjectId(Head(values))
             rest == try_from_prost_ids_partial(Tail(values))
         IN  IF first.tag = "Panic" THEN first
             ELSE IF rest.tag # "Ok" THEN rest
             ELSE IF first.tag # "Ok" THEN rest
             ELSE Ok(<<first.val>> \o rest.val)

\* try_from_prost_iterator!: element by element, the first error ends it
RECURSIVE try_from_prost_ids(_)
try_from_prost_ids(values) ==
    IF values = <<>> THEN Ok(<<>>)
    ELSE LET first == IF Head(values).kind = "Empty" THEN Err(KindIsEmpty)
                      ELSE try_from_prost_ObjectId(Head(values)) IN
         IF first.tag # "Ok" THEN first
         ELSE LET rest == try_from_prost_ids(Tail(values)) IN
              IF rest.tag # "Ok" THEN rest
              ELSE Ok(<<first.val>> \o rest.val)

try_from_prost_Vec_ObjectId(kind) ==
    IF kind.kind = "List" THEN try_from_prost_ids(kind.val)
    ELSE Err(IncorrecKind("List", kind.kind))

SeqToSet(s) == {s[i] : i \in 1..Len(s)}

try_from_prost_BTreeSet_ObjectId(kind) ==
    LET vec == try_from_prost_Vec_ObjectId(kind) IN
    IF vec.tag # "Ok" THEN vec ELSE Ok(SeqToSet(vec.val))

(***************************************************************************)
(* ProstStruct: a document is a function from field names to Values        *)
(***************************************************************************)
RemoveField(doc, field) == [f \in (DOMAIN doc) \ {field} |-> doc[f]]

Extend(doc, more) ==
    [f \in (DOMAIN doc) \cup (DOMAIN more) |->
        IF f \in DOMAIN more THEN more[f] ELSE doc[f]]

take_inner(doc, field) ==
    IF field \notin DOMAIN doc THEN Err(MissingStructField(field))
    ELSE IF doc[field].kind = "Empty" THEN Err(KindIsEmpty)
    ELSE Ok(doc[field])

\* T::try_from_prost for the types that are taken from a document
try_from_prost_as(T, kind) ==
    CASE T = "String" -> try_from_prost_String(kind)
      [] T = "f64" -> try_from_prost_f64(kind)
      [] T = "bool" -> try_from_prost_bool(kind)
      [] T = "Vec_ObjectId" -> try_from_prost_Vec_ObjectId(kind)
      [] T = "BTreeSet_ObjectId" -> try_from_prost_BTreeSet_ObjectId(kind)

\* a faulty take: the field is removed when its decode has succeeded
ProstStruct_take_on_success(self, T, field) ==
    LET kind == take_inner(self, field)
        result == IF kind.tag # "Ok" THEN kind ELSE try_from_prost_as(T, kind.val)
    IN  [result |-> result,
         inner |-> IF result.tag = "Ok" THEN RemoveField(self, field) ELSE self]

\* ProstStruct::take (lines 219-224) on the document self: fields.remove(field)
\* of take_inner takes the field out whatever follows, then T::try_from_prost
ProstStruct_take(self, T, field) ==
    LET kind == take_inner(self, field) IN
    [result |-> IF kind.tag # "Ok" THEN kind ELSE try_from_prost_as(T, kind.val),
     inner |-> RemoveField(self, field)]

\* ProstStruct::take_optional (lines 226-238)
ProstStruct_take_optional(self, T, field) ==
    LET kind == take_inner(self, field) IN
    [result |-> IF kind.tag = "Ok"
                THEN LET decoded == try_from_prost_as(T, kind.val) IN
                     IF decoded.tag = "Ok" THEN Ok(Some(decoded.val)) ELSE decoded
                ELSE IF kind.err.error = "MissingStructField" THEN Ok(None)
                ELSE kind,
     inner |-> RemoveField(self, field)]

take_String(doc, field) ==
    LET kind == take_inner(doc, field) IN
    IF kind.tag # "Ok" THEN kind ELSE try_from_prost_String(kind.val)

take_f64(doc, field) ==
    LET kind == take_inner(doc, field) IN
    IF kind.tag # "Ok" THEN kind ELSE try_from_prost_f64(kind.val)

take_ObjectId(doc, field) ==
    LET kind == take_inner(doc, field) IN
    IF kind.tag # "Ok" THEN kind ELSE try_from_prost_ObjectId(kind.val)

take_BTreeSet_ObjectId(doc, field) ==
    LET kind == take_inner(doc, field) IN
    IF kind.tag # "Ok" THEN kind ELSE try_from_prost_BTreeSet_ObjectId(kind.val)

take_optional_bool(doc, field) ==
    LET kind == take_inner(doc, field) IN
    IF kind.tag = "Ok"
    THEN LET b == try_from_prost_bool(kind.val) IN
         IF b.tag = "Ok" THEN Ok(Some(b.val)) ELSE b
    ELSE IF kind.err.error = "MissingStructField" THEN Ok(None)
    ELSE kind

take_optional_BTreeSet_ObjectId(doc, field) ==
    LET kind == take_inner(doc, field) IN
    IF kind.tag = "Ok"
    THEN LET s == try_from_prost_BTreeSet_ObjectId(kind.val) IN
         IF s.tag = "Ok" THEN Ok(Some(s.val)) ELSE s
    ELSE IF kind.err.error = "MissingStructField" THEN Ok(None)
    ELSE kind

\* the generated enums: pb::models::object_type::Layout and pb::models::RelationFormat
LayoutCode ==
    [Basic |-> 0, Profile |-> 1, Todo |-> 2, Set |-> 3, ObjectType |-> 4, Relation |-> 5,
     Note |-> 9, Bookmark |-> 11]
InternalRelationFormatCode ==
    [Longtext |-> 0, Shorttext |-> 1, Number |-> 2, Status |-> 3, Date |-> 4,
     File |-> 5, Checkbox |-> 6, Url |-> 7, Email |-> 8, Phone |-> 9, Emoji |-> 10,
     Tag |-> 11, Object |-> 100, Relations |-> 101]

take_enum(doc, field, codes) ==
    LET number == take_f64(doc, field) IN
    IF number.tag # "Ok" THEN number
    ELSE IF \E e \in DOMAIN codes : codes[e] = number.val
         THEN Ok(CHOOSE e \in DOMAIN codes : codes[e] = number.val)
         ELSE Err(InvalidEnumValue(number.val))

(***************************************************************************)
(* RelationFormat, RelationSpec, Relation: src/src/relation.rs             *)
(***************************************************************************)
ScalarFormats ==
    {"Text", "Number", "Select", "MultiSelect", "Date", "FileOrMedia", "Checkbox",
     "Url", "Email", "Phone"}

Scalar(f) == [format |-> f, types |-> {}]
ObjectFormat(types) == [format |-> "Object", types |-> types]

\* a faulty is_superset: the inclusion of the type sets is turned around
is_superset_of_subset(self, other) ==
    IF self.format = "Object" /\ other.format = "Object"
    THEN IF self.types = {} THEN TRUE ELSE self.types \subseteq other.types
    ELSE self = other

is_superset(self, other) ==
    IF self.format = "Object" /\ other.format = "Object"
    THEN IF self.types = {} THEN TRUE ELSE other.types \subseteq self.types
    ELSE self = other

\* From<&RelationFormat> for f64
RelationFormat_to_f64(value) ==
    LET internal ==
            CASE value.format = "Text" -> "Longtext"
              [] value.format = "Number" -> "Number"
              [] value.format = "Select" -> "Status"
              [] value.format = "MultiSelect" -> "Tag"
              [] value.format = "Date" -> "Date"
              [] value.format = "FileOrMedia" -> "File"
              [] value.format = "Checkbox" -> "Checkbox"
              [] value.format = "Url" -> "Url"
              [] value.format = "Email" -> "Email"
              [] value.format = "Phone" -> "Phone"
              [] value.format = "Object" -> "Object"
    IN  InternalRelationFormatCode[internal]

\* RelationFormat::from_internal; object_types is an Option
from_internal(internal, object_types) ==
    CASE internal \in {"Longtext", "Shorttext"} -> Ok(Scalar("Text"))
      [] internal = "Number" -> Ok(Scalar("Number"))
      [] internal = "Status" -> Ok(Scalar("Select"))
      [] internal = "Tag" -> Ok(Scalar("MultiSelect"))
      [] internal = "Date" -> Ok(Scalar("Date"))
      [] internal = "File" -> Ok(Scalar("FileOrMedia"))
      [] internal = "Checkbox" -> Ok(Scalar("Checkbox"))
      [] internal = "Url" -> Ok(Scalar("Url"))
      [] internal = "Email" -> Ok(Scalar("Email"))
      [] internal = "Phone" -> Ok(Scalar("Phone"))
      [] internal = "Object" ->
            Ok(ObjectFormat(IF object_types.tag = "Some" THEN object_types.val ELSE {}))
      [] OTHER -> Panic    \* Emoji, Relations

\* the elements of a set of ids in increasing order (the iteration order of a BTreeSet)
RECURSIVE SortedSeq(_)
SortedSeq(S) ==
    IF S = {} THEN <<>>
    ELSE LET m == CHOOSE x \in S : \A y \in S : x <= y IN <<m>> \o SortedSeq(S \ {m})

MapSeq(s, Op(_)) == [i \in 1..Len(s) |-> Op(s[i])]

RelationSpec(name, format) == [format |-> format, name |-> name]

\* a faulty conversion: the allowed object types are left out
RelationSpec_to_struct_untyped(value) ==
    [f \in {"name", "relationFormat"} |->
        IF f = "name" THEN into_prost_String(value.name)
        ELSE into_prost_f64(RelationFormat_to_f64(value.format))]

\* From<RelationSpec> for prost_types::Struct
RelationSpec_to_struct(value) ==
    LET fields == [f \in {"name", "relationFormat"} |->
                      IF f = "name" THEN into_prost_String(value.name)
                      ELSE into_prost_f64(RelationFormat_to_f64(value.format))]
    IN  IF value.format.format = "Object"
        THEN Extend(fields, [relationFormatObjectTypes |->
                into_prost_Vec(MapSeq(SortedSeq(value.format.types), into_prost_ObjectId))])
        ELSE fields

as_spec(relation) == RelationSpec(relation.name, relation.format)

\* a faulty decoder: the layout is read and not compared
Relation_try_from_prost_any_layout(input) ==
    LET layout == take_enum(input, "layout", LayoutCode)
        id == take_ObjectId(input, "id")
        name == take_String(input, "name")
        relation_key == take_String(input, "relationKey")
        format == take_enum(input, "relationFormat", InternalRelationFormatCode)
        object_types == take_optional_BTreeSet_ObjectId(input, "relationFormatObjectTypes")
    IN  IF layout.tag # "Ok" THEN layout
        ELSE IF id.tag # "Ok" THEN id
        ELSE IF name.tag # "Ok" THEN name
        ELSE IF relation_key.tag # "Ok" THEN relation_key
        ELSE IF format.tag # "Ok" THEN format
        ELSE IF object_types.tag # "Ok" THEN object_types
        ELSE Let(from_internal(format.val, object_types.val), LAMBDA relation_format :
                 IF relation_format.tag # "Ok" THEN relation_format
                 ELSE Ok([id |-> id.val, format |-> relation_format.val,
                          name |-> name.val,
                          relation_key |-> relation_key.val]))

\* TryFromProst for Relation
Relation_try_from_prost(input) ==
    LET layout == take_enum(input, "layout", LayoutCode)
        id == take_ObjectId(input, "id")
        name == take_String(input, "name")
        relation_key == take_String(input, "relationKey")
        format == take_enum(input, "relationFormat", InternalRelationFormatCode)
        object_types == take_optional_BTreeSet_ObjectId(input, "relationFormatObjectTypes")
    IN  IF layout.tag # "Ok" THEN layout
        ELSE IF layout.val # "Relation" THEN Panic
        ELSE IF id.tag # "Ok" THEN id
        ELSE IF name.tag # "Ok" THEN name
        ELSE IF relation_key.tag # "Ok" THEN relation_key
        ELSE IF format.tag # "Ok" THEN format
        ELSE IF object_types.tag # "Ok" THEN object_types
        ELSE Let(from_internal(format.val, object_types.val), LAMBDA relation_format :
                 IF relation_format.tag # "Ok" THEN relation_format
                 ELSE Ok([id |-> id.val, format |-> relation_format.val,
                          name |-> name.val,
                          relation_key |-> relation_key.val]))

(***************************************************************************)
(* ObjectTypeSpec, ObjectTypeUnresolved, ObjectType: src/src/object_type.rs*)
(***************************************************************************)
ObjectTypeSpec(name, recommended_relations) ==
    [name |-> name, recommended_relations |-> recommended_relations]

\* ObjectTypeSpec::to_struct; relations is the Vec of relation ids
to_struct(self, relations) ==
    [name |-> into_prost_String(self.name),
     recommendedRelations |-> into_prost_Vec(MapSeq(relations, into_prost_ObjectId))]

\* TryFromProst for ObjectTypeUnresolved
ObjectTypeUnresolved_try_from_prost(input) ==
    LET layout == take_enum(input, "layout", LayoutCode)
        id == take_ObjectId(input, "id")
        name == take_String(input, "name")
        unique_key == take_String(input, "uniqueKey")
        recommended_relations == take_BTreeSet_ObjectId(input, "recommendedRelations")
    IN  IF layout.tag # "Ok" THEN layout
        ELSE IF layout.val # "ObjectType" THEN Panic
        ELSE IF id.tag # "Ok" THEN id
        ELSE IF name.tag # "Ok" THEN name
        ELSE IF unique_key.tag # "Ok" THEN unique_key
        ELSE IF recommended_relations.tag # "Ok" THEN recommended_relations
        ELSE Ok([id |-> id.val, name |-> name.val,
                 recommended_relations |-> recommended_relations.val,
                 unique_key |-> unique_key.val])

\* ObjectTypeUnresolved::resolve; recommended_relations is the set of Relations
resolve(self, recommended_relations) ==
    [id |-> self.id, name |-> self.name, recommended_relations |-> recommended_relations,
     unique_key |-> self.unique_key]

(***************************************************************************)
(* ObjectUnresolved, Object: src/src/object.rs                             *)
(***************************************************************************)
\* a faulty decoder: the name is read and left in the document
ObjectUnresolved_try_from_prost_keeping_name(input) ==
    LET layout == take_enum(input, "layout", LayoutCode)
        id == take_ObjectId(input, "id")
        name == take_String(input, "name")
        ty == take_ObjectId(input, "type")
    IN  IF layout.tag # "Ok" THEN layout
        ELSE IF layout.val \notin {"Basic", "Bookmark"} THEN Panic
        ELSE IF id.tag # "Ok" THEN id
        ELSE IF name.tag # "Ok" THEN name
        ELSE IF ty.tag # "Ok" THEN ty
        ELSE Ok([id |-> id.val, name |-> name.val,
                 relations |-> RemoveField(RemoveField(RemoveField(
                                  input, "layout"), "id"), "type"),
                 ty |-> ty.val])

\* TryFromProst for ObjectUnresolved: the relation bag is what the four takes leave
ObjectUnresolved_try_from_prost(input) ==
    LET layout == take_enum(input, "layout", LayoutCode)
        id == take_ObjectId(input, "id")
        name == take_String(input, "name")
        ty == take_ObjectId(input, "type")
    IN  IF layout.tag # "Ok" THEN layout
        ELSE IF layout.val \notin {"Basic", "Bookmark"} THEN Panic
        ELSE IF id.tag # "Ok" THEN id
        ELSE IF name.tag # "Ok" THEN name
        ELSE IF ty.tag # "Ok" THEN ty
        ELSE Ok([id |-> id.val, name |-> name.val,
                 relations |-> RemoveField(RemoveField(RemoveField(RemoveField(
                                  input, "layout"), "id"), "name"), "type"),
                 ty |-> ty.val])

\* chrono::NaiveDateTime: the seconds since the epoch and the nanoseconds of the
\* second; timestamp() is the number of whole seconds, and DateTime::from_timestamp
\* makes the date of a number of seconds and of nanoseconds
NaiveDateTime(secs, nanos) == [secs |-> secs, nanos |-> nanos]

timestamp(datetime) == datetime.secs

from_timestamp(secs, nsecs) == NaiveDateTime(secs, nsecs)

\* RelationValue: variant and payload; the payload of Object is a sequence of Objects
RelationValue(variant, value) == [value |-> value, variant |-> variant]

\* a faulty format: the type of the first object of a list stands for the list
format_of_first(self) ==
    IF self.variant = "Object"
    THEN ObjectFormat(IF Len(self.value) = 0 THEN {} ELSE {self.value[1].ty})
    ELSE Scalar(self.variant)

\* RelationValue::format
format(self) ==
    IF self.variant = "Object"
    THEN ObjectFormat({self.value[i].ty : i \in 1..Len(self.value)})
    ELSE Scalar(self.variant)

Object_id(object) == object.id

\* IntoProstValue for RelationValue
RelationValue_into_prost(self) ==
    CASE self.variant \in {"Text", "Url", "Email", "Phone"} -> into_prost_String(self.value)
      [] self.variant = "Number" -> into_prost_f64(self.value)
      [] self.variant = "Date" -> into_prost_f64(timestamp(self.value))
      [] self.variant = "Checkbox" -> into_prost_bool(self.value)
      [] self.variant = "Object" ->
            into_prost_Vec([i \in 1..Len(self.value) |->
                               into_prost_ObjectId(Object_id(self.value[i]))])

IncompatibleRelationValue(expected, received) ==
    [expected |-> expected, received |-> received,
     what |-> "Expected format doesn't match received format"]

\* a faulty validate: every value is accepted
validate_any(self, value) == Ok([value |-> value, key |-> self.relation_key])

\* a faulty validate: the variants are compared, the object types are not
validate_by_variant(self, value) ==
    IF self.format.format = format(value).format
    THEN Ok([value |-> value, key |-> self.relation_key])
    ELSE Err(IncompatibleRelationValue(self.format, format(value)))

\* a faulty validate: the detail carries the relation's name for its key
validate_with_name(self, value) ==
    LET expected_format == self.format
        received_format == format(value)
    IN  IF is_superset(expected_format, received_format)
        THEN Ok([value |-> value, key |-> self.name])
        ELSE Err(IncompatibleRelationValue(expected_format, received_format))

\* Relation::validate
validate(self, value) ==
    LET expected_format == self.format
        received_format == format(value)
    IN  IF is_superset(expected_format, received_format)
        THEN Ok([value |-> value, key |-> self.relation_key])
        ELSE Err(IncompatibleRelationValue(expected_format, received_format))

\* RelationDetail::into_raw_parts: the field name and the wire value.  A key is a
\* string of one token, and the token names the field of the document.
into_raw_parts(self) == <<self.key[1], RelationValue_into_prost(self.value)>>

ObjectDescription(ty, name, relations) == [name |-> name, relations |-> relations, ty |-> ty]

\* ObjectSpec::as_description: no relation values
as_description(self) == ObjectDescription(self.ty, self.name, <<>>)

\* TryFrom<ObjectDescription> for prost_types::Struct, one pair of relations: the
\* relation validates the value and the detail gives the field
relation_parts(value, relation) ==
    into_raw_parts(validate(relation, value.relations[relation]).val)

\* a faulty conversion: the values go into the document as they are
ObjectDescription_try_into_unchecked(value) ==
    {Ok(Extend([name |-> into_prost_String(value.name)],
               [f \in {relation.relation_key[1] : relation \in DOMAIN value.relations} |->
                   RelationValue_into_prost(
                       value.relations[CHOOSE relation \in DOMAIN value.relations :
                                          relation.relation_key[1] = f])]))}

\* TryFrom<ObjectDescription> for prost_types::Struct.  relations is a function from
\* Relations to RelationValues; a HashMap iterates in no fixed order and collect
\* stops at the first error, so the error returned is the one of any pair that
\* fails: the set of the possible results.
ObjectDescription_try_into(value) ==
    Let({relation \in DOMAIN value.relations :
            validate(relation, value.relations[relation]).tag = "Err"},
        LAMBDA failed :
            IF failed # {}
            THEN {Err(validate(relation, value.relations[relation]).err) : relation \in failed}
            ELSE {Ok(Extend([name |-> into_prost_String(value.name)],
                            [f \in {relation_parts(value, relation)[1] :
                                       relation \in DOMAIN value.relations} |->
                                relation_parts(value,
                                    CHOOSE relation \in DOMAIN value.relations :
                                        relation_parts(value, relation)[1] = f)[2]]))})

(***************************************************************************)
(* tonic::Status                                                           *)
(***************************************************************************)
Status(code, message) == [code |-> code, message |-> message]

\* what an RPC can answer: a response, a transport error (the `?` on the await), or a
\* response carrying an error code
RpcOutcomes == {"ok", "transport", "UnknownError", "BadInput"}

RpcError(outcome) ==
    CASE outcome = "transport" -> Status("unavailable", [what |-> "transport error"])
      [] outcome = "UnknownError" -> Status("unknown", [what |-> "error.description"])
      [] outcome = "BadInput" -> Status("invalid_argument", [what |-> "error.description"])

(***************************************************************************)
(* The backend (anytype-heart), as the client's requests and decoders use  *)
(* it: a store of documents, searched by filters, grown by the creates.    *)
(***************************************************************************)
SpaceId == <<"s">>
KeyToken == <<"k1", "k2", "k3", "k4", "k5", "k6", "k7", "k8", "k9">>

Filter(relation_key, condition, value) ==
    [value |-> value, relation_key |-> relation_key, condition |-> condition]

\* two scalar Values are equal: the same kind and the same payload
ValueEq(a, b) == a.kind = b.kind /\ a.val = b.val

Matches(doc, filter) ==
    /\ filter.relation_key \in DOMAIN doc
    /\ LET v == doc[filter.relation_key] IN
       CASE filter.condition = "Equal" -> ValueEq(v, filter.value)
         [] filter.condition = "Like" ->
                /\ v.kind = "String"
                /\ IsInfix(ToLower(filter.value.val), ToLower(v.val))
         [] filter.condition = "In" ->
                \E i \in 1..Len(filter.value.val) : ValueEq(filter.value.val[i], v)

\* Rpc.Object.Search: the records that match every filter, in store order
RECURSIVE object_search_from(_, _, _, _)
object_search_from(store, filters, i, found) ==
    IF i > Len(store) THEN found
    ELSE object_search_from(store, filters, i + 1,
             IF \A k \in 1..Len(filters) : Matches(store[i], filters[k])
             THEN Append(found, store[i]) ELSE found)

object_search(store, filters) ==
    Let(filters, LAMBDA request : object_search_from(store, request, 1, <<>>))

\* what the backend adds to the details of a create request
NewRecord(store, details, layout, more) ==
    LET id == Len(store) + 1 IN
    Extend(Extend(details,
        [id |-> into_prost_ObjectId(id),
         layout |-> into_prost_f64(LayoutCode[layout]),
         spaceId |-> into_prost_String(SpaceId)]), more)

\* Rpc.Object.CreateRelation
object_create_relation(store, details) ==
    NewRecord(store, details, "Relation",
              [relationKey |-> into_prost_String(<<KeyToken[Len(store) + 1]>>)])

\* Rpc.Object.CreateObjectType
object_create_object_type(store, details) ==
    NewRecord(store, details, "ObjectType",
              [uniqueKey |-> into_prost_String(<<"u", Digit[Len(store) + 1]>>)])

\* Rpc.Object.Create: the object's type is the type with the unique key
TypeWithUniqueKey(store, unique_key) ==
    {i \in 1..Len(store) :
        /\ "uniqueKey" \in DOMAIN store[i]
        /\ ValueEq(store[i]["uniqueKey"], into_prost_String(unique_key))}

object_create(store, object_type_unique_key, details) ==
    NewRecord(store, details, "Basic",
              [type |-> into_prost_ObjectId(
                            CHOOSE i \in TypeWithUniqueKey(store, object_type_unique_key) : TRUE)])

(***************************************************************************)
(* Space: src/src/space.rs                                                 *)
(***************************************************************************)
\* SearchOutput::LAYOUT
LAYOUT(O) ==
    CASE O = "Relation" -> <<"Relation">>
      [] O = "ObjectTypeUnresolved" -> <<"ObjectType">>
      [] O = "ObjectUnresolved" -> <<"Basic", "Bookmark">>

try_from_prost(O, input) ==
    CASE O = "Relation" -> Relation_try_from_prost(input)
      [] O = "ObjectTypeUnresolved" -> ObjectTypeUnresolved_try_from_prost(input)
      [] O = "ObjectUnresolved" -> ObjectUnresolved_try_from_prost(input)

LayoutCodeOf(layout) == into_prost_f64(LayoutCode[layout])

\* Space::search_objects, the request: the caller's filters, the space, the layouts
search_filters(O, filters) ==
    filters \o
    <<Filter("spaceId", "In", into_prost_Vec(<<into_prost_String(SpaceId)>>)),
      Filter("layout", "In", into_prost_Vec(MapSeq(LAYOUT(O), LayoutCodeOf)))>>

\* a faulty response: the hidden records are decoded like the others
search_output_record_hidden(O, doc) ==
    Let(try_from_prost(O, RemoveField(doc, "isHidden")), LAMBDA decoded :
        CASE decoded.tag = "Panic" -> Panic
          [] decoded.tag = "Ok" -> Some(decoded.val)
          [] OTHER -> None)

\* Space::search_objects, the response (lines 97-117), for one record: a hidden
\* record is left out (None), the others are decoded, and a record that fails to
\* decode is left out too (filter_map(Result::ok)); an isHidden that is no bool and
\* a failed assertion of the decoder are panics
search_output_record(O, doc) ==
    Let(take_optional_bool(doc, "isHidden"), LAMBDA hidden :
        IF hidden.tag # "Ok" THEN Panic
        ELSE IF hidden.val.tag = "Some" /\ hidden.val.val THEN None
        ELSE Let(try_from_prost(O, RemoveField(doc, "isHidden")), LAMBDA decoded :
                 CASE decoded.tag = "Panic" -> Panic
                   [] decoded.tag = "Ok" -> Some(decoded.val)
                   [] OTHER -> None))

\* the records of the response from index i on, in the order of the response
RECURSIVE search_output_from(_, _, _, _)
search_output_from(O, found, i, output) ==
    IF i > Len(found) THEN Ok(output)
    ELSE Let(search_output_record(O, found[i]), LAMBDA record :
             CASE record.tag = "Panic" -> Panic
               [] record.tag = "Some" ->
                      search_output_from(O, found, i + 1, Append(output, record.val))
               [] OTHER -> search_output_from(O, found, i + 1, output))

search_output(O, found) == Let(found, LAMBDA response : search_output_from(O, response, 1, <<>>))

\* Space::search_objects against a store that answers
search_objects(O, store, filters) ==
    search_output(O, object_search(store, search_filters(O, filters)))

\* a faulty request: the name is looked for under the relation key
get_relation_filters_by_key(relation_spec) ==
    <<Filter("relationKey", "Equal", into_prost_String(relation_spec.name))>>

\* Space::get_relation, the request (lines 154-163)
get_relation_filters(relation_spec) ==
    <<Filter("name", "Equal", into_prost_String(relation_spec.name))>>

\* a faulty match: a found format that is a superset of the requested one is accepted
get_relation_match_superset(relations, relation_spec) ==
    CASE Len(relations) = 0 -> Ok(None)
      [] Len(relations) = 1 ->
            LET relation == relations[1] IN
            IF is_superset(relation.format, relation_spec.format)
            THEN Ok(Some(relation))
            ELSE Err(Status("failed_precondition",
                        [name |-> relation.name,
                         what |-> "Relation exists but has a different format from requested format",
                         existing |-> relation.format,
                         requested |-> relation_spec.format]))
      [] OTHER ->
            Err(Status("failed_precondition",
                   [name |-> relation_spec.name,
                    what |-> "More than one relation with same name"]))

\* a faulty match: with more than one relation found the first one is compared
get_relation_match_first(relations, relation_spec) ==
    CASE Len(relations) = 0 -> Ok(None)
      [] OTHER ->
            LET relation == relations[1] IN
            IF relation.format = relation_spec.format
            THEN Ok(Some(relation))
            ELSE Err(Status("failed_precondition",
                        [name |-> relation.name,
                         what |-> "Relation exists but has a different format from requested format",
                         existing |-> relation.format,
                         requested |-> relation_spec.format]))

\* Space::get_relation, the match on the number of relations found (lines 165-185)
get_relation_match(relations, relation_spec) ==
    CASE Len(relations) = 0 -> Ok(None)
      [] Len(relations) = 1 ->
            LET relation == relations[1] IN
            IF relation.format = relation_spec.format
            THEN Ok(Some(relation))
            ELSE Err(Status("failed_precondition",
                        [name |-> relation.name,
                         what |-> "Relation exists but has a different format from requested format",
                         existing |-> relation.format,
                         requested |-> relation_spec.format]))
      [] OTHER ->
            Err(Status("failed_precondition",
                   [name |-> relation_spec.name,
                    what |-> "More than one relation with same name"]))

\* Space::get_relation against a store that answers the search
get_relation(store, relation_spec) ==
    Let(search_objects("Relation", store, get_relation_filters(relation_spec)),
        LAMBDA relations :
            IF relations.tag # "Ok" THEN relations
            ELSE get_relation_match(relations.val, relation_spec))

\* Space::create_relation, what it returns for the details of the response
create_relation_response(details) ==
    Let(Relation_try_from_prost(details), LAMBDA relation :
        IF relation.tag = "Err" THEN Err(Status("internal", relation.err)) ELSE relation)

\* the requests, as the code builds them: the name of the RPC and the fields of the
\* request that are not left at their default
object_search_request(O, filters) ==
    [request |-> [filters |-> search_filters(O, filters)], rpc |-> "object_search"]

get_relation_request(relation_spec) ==
    object_search_request("Relation", get_relation_filters(relation_spec))

\* Space::create_relation, the request (lines 192-202)
object_create_relation_request(relation_spec) ==
    [request |-> [details |-> RelationSpec_to_struct(relation_spec), space_id |-> SpaceId],
     rpc |-> "object_create_relation"]

(***************************************************************************)
(* The inputs the callers draw from                                        *)
(***************************************************************************)
Tasks == {"t1", "t2"}

DueName == <<"D", "u", "e">>
TagName == <<"T", "a", "g">>
RefName == <<"R", "e", "f">>
PageName == <<"P", "g">>
NoteName == <<"N", "t">>
BookName == <<"B", "k">>

\* the store of a new space: the relation Due (a Date), the object type Pg that
\* recommends it, the relation Ref (objects of type Pg) and the object type Nt
InitRecords ==
    << [id |-> into_prost_ObjectId(1),
        name |-> into_prost_String(DueName),
        layout |-> into_prost_f64(LayoutCode["Relation"]),
        spaceId |-> into_prost_String(SpaceId),
        relationKey |-> into_prost_String(<<KeyToken[1]>>),
        relationFormat |-> into_prost_f64(InternalRelationFormatCode["Date"])],
       [id |-> into_prost_ObjectId(2),
        name |-> into_prost_String(PageName),
        layout |-> into_prost_f64(LayoutCode["ObjectType"]),
        recommendedRelations |-> into_prost_Vec(<<into_prost_ObjectId(1)>>),
        spaceId |-> into_prost_String(SpaceId),
        uniqueKey |-> into_prost_String(<<"u", Digit[2]>>)],
       [id |-> into_prost_ObjectId(3),
        name |-> into_prost_String(RefName),
        relationFormatObjectTypes |-> into_prost_Vec(<<into_prost_ObjectId(2)>>),
        layout |-> into_prost_f64(LayoutCode["Relation"]),
        spaceId |-> into_prost_String(SpaceId),
        relationKey |-> into_prost_String(<<KeyToken[3]>>),
        relationFormat |-> into_prost_f64(InternalRelationFormatCode["Object"])],
       [id |-> into_prost_ObjectId(4),
        name |-> into_prost_String(NoteName),
        layout |-> into_prost_f64(LayoutCode["ObjectType"]),
        recommendedRelations |-> into_prost_Vec(<<>>),
        spaceId |-> into_prost_String(SpaceId),
        uniqueKey |-> into_prost_String(<<"u", Digit[4]>>)] >>

\* the relation specs the callers ask for: Due as it is and with another format, Ref
\* with the wildcard format, and the new name Tag with two Object formats
DueDate == RelationSpec(DueName, Scalar("Date"))
DueText == RelationSpec(DueName, Scalar("Text"))
RefAny == RelationSpec(RefName, ObjectFormat({}))
TagAny == RelationSpec(TagName, ObjectFormat({}))
TagPage == RelationSpec(TagName, ObjectFormat({2}))

RelationSpecs == {DueDate, DueText, RefAny, TagAny, TagPage}

(***************************************************************************)
(* Tasks: a task runs one API call at a time                               *)
(***************************************************************************)
NoObject == [id |-> 0]

IdleTask ==
    [op |-> "none", arg |-> <<>>, pc |-> "idle", res |-> Pending, sent |-> <<>>,
     local |-> <<>>, alone |-> TRUE, held |-> NoObject, wire |-> <<>>]

Init ==
    /\ records = InitRecords
    /\ task = [t \in Tasks |-> IdleTask]

\* a task is between two calls and may start the next
Begin(t) == task[t].pc = "idle"

\* the task's state as its next call starts
NewCall(t, op, arg) ==
    [op |-> op, arg |-> arg, pc |-> "idle", res |-> Pending, sent |-> <<>>,
     local |-> <<>>, alone |-> TRUE, held |-> task[t].held, wire |-> <<>>]

\* the call sends one RPC: sent has the names of the RPCs of the call, wire the
\* requests
Sent(call, sending) ==
    [call EXCEPT !.sent = Append(@, sending.rpc), !.wire = Append(@, sending.request)]

\* the call sends one RPC and returns res
Return(call, sending, res) ==
    [Sent(call, sending) EXCEPT !.pc = "idle", !.res = res, !.local = <<>>]

\* the call sends one RPC and goes on at pc
Goto(call, sending, pc, local) ==
    [Sent(call, sending) EXCEPT !.pc = pc, !.local = local]

\* task t becomes call; when the step wrote to the store the other tasks are no
\* longer alone
Step(t, call, wrote) ==
    task' = [u \in Tasks |->
                IF u = t THEN call
                ELSE IF wrote THEN [task[u] EXCEPT !.alone = FALSE]
                ELSE task[u]]

\* an RPC that creates a record is answered only while the store has room
CanAnswer(outcome) == outcome = "ok" => Len(records) < MaxRecords

\* a faulty create_relation: a request that fails is sent again
create_relation_retrying(t, call, relation_spec, outcome) ==
    /\ CanAnswer(outcome)
    /\ IF outcome = "ok"
       THEN \E details \in {object_create_relation(records, RelationSpec_to_struct(relation_spec))} :
                /\ records' = Append(records, details)
                /\ Step(t, Return(call, object_create_relation_request(relation_spec),
                                  create_relation_response(details)), TRUE)
       ELSE /\ UNCHANGED records
            /\ Step(t, Goto(call, object_create_relation_request(relation_spec),
                            "create_relation", <<>>), FALSE)

\* Space::create_relation, run by call for relation_spec
create_relation(t, call, relation_spec, outcome) ==
    /\ CanAnswer(outcome)
    /\ IF outcome = "ok"
       THEN \E details \in {object_create_relation(records, RelationSpec_to_struct(relation_spec))} :
                /\ records' = Append(records, details)
                /\ Step(t, Return(call, object_create_relation_request(relation_spec),
                                  create_relation_response(details)), TRUE)
       ELSE /\ UNCHANGED records
            /\ Step(t, Return(call, object_create_relation_request(relation_spec),
                              Err(RpcError(outcome))), FALSE)

\* a faulty get_relation: it goes on to create the relation
GetRelationOrCreate(t, relation_spec, outcome) ==
    /\ Begin(t)
    /\ create_relation(t, NewCall(t, "get_relation", relation_spec), relation_spec, outcome)

\* Space::get_relation
GetRelation(t, relation_spec, outcome) ==
    /\ Begin(t)
    /\ Step(t, Return(NewCall(t, "get_relation", relation_spec),
                      get_relation_request(relation_spec),
                      IF outcome = "ok" THEN get_relation(records, relation_spec)
                      ELSE Err(RpcError(outcome))), FALSE)
    /\ UNCHANGED records

CreateRelation(t, relation_spec, outcome) ==
    /\ Begin(t)
    /\ create_relation(t, NewCall(t, "create_relation", relation_spec), relation_spec, outcome)

\* a faulty obtain_relation: a relation of the name whose format is not the
\* requested one is upgraded to the requested format, and returned
ObtainRelationUpgrade(t, relation_spec, outcome) ==
    /\ Begin(t)
    /\ \E got \in {IF outcome = "ok" THEN get_relation(records, relation_spec)
                   ELSE Err(RpcError(outcome))} :
          IF got.tag = "Err" /\ got.err.code = "failed_precondition"
             /\ "existing" \in DOMAIN got.err.message
          THEN \E found \in {search_objects("Relation", records,
                                            get_relation_filters(relation_spec)).val[1]} :
                  /\ records' = [records EXCEPT ![found.id] =
                                     Extend(@, RelationSpec_to_struct(relation_spec))]
                  /\ Step(t, Return(NewCall(t, "obtain_relation", relation_spec),
                                    get_relation_request(relation_spec),
                                    Ok([found EXCEPT !.format = relation_spec.format])), TRUE)
          ELSE /\ Step(t, CASE got.tag = "Ok" /\ got.val.tag = "None" ->
                                   Goto(NewCall(t, "obtain_relation", relation_spec),
                                        get_relation_request(relation_spec), "create_relation", <<>>)
                            [] got.tag = "Ok" /\ got.val.tag = "Some" ->
                                   Return(NewCall(t, "obtain_relation", relation_spec),
                                          get_relation_request(relation_spec), Ok(got.val.val))
                            [] OTHER -> Return(NewCall(t, "obtain_relation", relation_spec),
                                               get_relation_request(relation_spec), got), FALSE)
               /\ UNCHANGED records

\* Space::obtain_relation, up to the answer of its get_relation
ObtainRelationGet(t, relation_spec, outcome) ==
    /\ Begin(t)
    /\ \E got \in {IF outcome = "ok" THEN get_relation(records, relation_spec)
                   ELSE Err(RpcError(outcome))} :
          Step(t, CASE got.tag = "Ok" /\ got.val.tag = "None" ->
                           Goto(NewCall(t, "obtain_relation", relation_spec),
                                get_relation_request(relation_spec), "create_relation", <<>>)
                    [] got.tag = "Ok" /\ got.val.tag = "Some" ->
                           Return(NewCall(t, "obtain_relation", relation_spec),
                                  get_relation_request(relation_spec), Ok(got.val.val))
                    [] OTHER -> Return(NewCall(t, "obtain_relation", relation_spec),
                                       get_relation_request(relation_spec), got), FALSE)
    /\ UNCHANGED records

\* Space::obtain_relation, the create_relation after a get_relation that found nothing
ObtainRelationCreate(t, outcome) ==
    /\ task[t].op = "obtain_relation"
    /\ task[t].pc = "create_relation"
    /\ create_relation(t, task[t], task[t].arg, outcome)

(***************************************************************************)
(* Object types                                                            *)
(***************************************************************************)
\* Space::get_objects, the request
get_objects_filters(ids) ==
    <<Filter("id", "In", into_prost_Vec(MapSeq(SortedSeq(ids), into_prost_ObjectId)))>>

\* Space::get_objects against a store that answers the search
get_objects(O, store, ids) == search_objects(O, store, get_objects_filters(ids))

\* ObjectTypeUnresolved::slow_resolve: the recommended relations are looked up by
\* their ids and the type is resolved with the relations found
slow_resolve(self, store) ==
    Let(get_objects("Relation", store, self.recommended_relations), LAMBDA relations :
        IF relations.tag # "Ok" THEN relations
        ELSE Ok(resolve(self, SeqToSet(relations.val))))

\* Space::get_object_type, the request (lines 241-250)
get_object_type_filters(object_type_spec) ==
    <<Filter("name", "Like", into_prost_String(object_type_spec.name))>>

get_object_type_request(object_type_spec) ==
    object_search_request("ObjectTypeUnresolved", get_object_type_filters(object_type_spec))

\* the request of get_objects
get_objects_request(O, ids) == object_search_request(O, get_objects_filters(ids))

\* Space::create_object_type, the request (lines 302-314)
object_create_object_type_request(object_type_spec, relation_ids) ==
    [request |-> [details |-> to_struct(object_type_spec, relation_ids), space_id |-> SpaceId],
     rpc |-> "object_create_object_type"]

\* a faulty comparison: a requested set that the resolved one contains is accepted
get_object_type_compare_subset(output, object_type_spec) ==
    LET relations_specs == {as_spec(relation) : relation \in output.recommended_relations} IN
    IF object_type_spec.recommended_relations \subseteq relations_specs
    THEN Ok(Some(output))
    ELSE Err(Status("failed_precondition",
                [received |-> object_type_spec.recommended_relations,
                 name |-> object_type_spec.name,
                 what |-> "ObjectType exists but has different recommended relations from requested recommended relations",
                 requested |-> relations_specs]))

\* Space::get_object_type, the comparison of the resolved type with the spec
\* (lines 258-276); the message is built with the arguments in this order
get_object_type_compare(output, object_type_spec) ==
    LET relations_specs == {as_spec(relation) : relation \in output.recommended_relations} IN
    IF relations_specs = object_type_spec.recommended_relations
    THEN Ok(Some(output))
    ELSE Err(Status("failed_precondition",
                [received |-> object_type_spec.recommended_relations,
                 name |-> object_type_spec.name,
                 what |-> "ObjectType exists but has different recommended relations from requested recommended relations",
                 requested |-> relations_specs]))

\* a faulty match: with more than one type found the first one is taken
get_object_type_match_first(call, object_types, object_type_spec) ==
    CASE object_types.tag # "Ok" -> Return(call, get_object_type_request(object_type_spec), object_types)
      [] Len(object_types.val) = 0 -> Return(call, get_object_type_request(object_type_spec), Ok(None))
      [] OTHER -> Goto(call, get_object_type_request(object_type_spec), "slow_resolve", object_types.val[1])

\* Space::get_object_type, the match on the number of types found (lines 252-282):
\* with one type found the call goes on to slow_resolve
get_object_type_match(call, object_types, object_type_spec) ==
    CASE object_types.tag # "Ok" -> Return(call, get_object_type_request(object_type_spec), object_types)
      [] Len(object_types.val) = 0 -> Return(call, get_object_type_request(object_type_spec), Ok(None))
      [] Len(object_types.val) = 1 ->
            Goto(call, get_object_type_request(object_type_spec), "slow_resolve", object_types.val[1])
      [] OTHER ->
            Return(call, get_object_type_request(object_type_spec),
                   Err(Status("failed_precondition",
                          [name |-> object_type_spec.name,
                           what |-> "More than one object type with same name"])))

\* Space::get_object_type with one type found: the answer of slow_resolve and
\* the comparison
get_object_type_resolved(object_type, store, object_type_spec, outcome) ==
    Let(IF outcome = "ok" THEN slow_resolve(object_type, store) ELSE Err(RpcError(outcome)),
        LAMBDA output :
            IF output.tag # "Ok" THEN output
            ELSE get_object_type_compare(output.val, object_type_spec))

\* the sub-calls of create_object_type: one obtain_relation per recommended relation
NewSubCalls(object_type_spec) ==
    [relation_spec \in object_type_spec.recommended_relations |->
        [relation |-> <<>>, pc |-> "get_relation"]]

\* a faulty start: the create request is sent at once, without the relations
create_object_type_start_eager(call, object_type_spec) ==
    [call EXCEPT !.pc = "create_object_type", !.local = <<>>]

\* Space::create_object_type starts: the futures of the recommended relations are
\* collected; with none of them the call goes on to the create request
create_object_type_start(call, object_type_spec) ==
    [call EXCEPT !.pc = IF object_type_spec.recommended_relations = {}
                        THEN "create_object_type" ELSE "obtain_relations",
                 !.local = NewSubCalls(object_type_spec)]

\* a sub-call of create_object_type has its relation: the call goes on to the create
\* request when it was the last one
SubCallDone(call, relation_spec, relation) ==
    LET subs == [call.local EXCEPT ![relation_spec] = [relation |-> relation, pc |-> "done"]] IN
    [call EXCEPT !.local = subs,
                 !.pc = IF \A rs \in DOMAIN subs : subs[rs].pc = "done"
                        THEN "create_object_type" ELSE "obtain_relations"]

\* Space::create_object_type, what it returns for the details of the response
create_object_type_response(details, recommended_relations) ==
    Let(ObjectTypeUnresolved_try_from_prost(details), LAMBDA object_type :
        IF object_type.tag = "Err" THEN Err(Status("internal", object_type.err))
        ELSE IF object_type.tag = "Panic" THEN Panic
        ELSE Ok(resolve(object_type.val, recommended_relations)))

\* the answer of the search of Space::get_object_type
get_object_type_search(store, object_type_spec, outcome) ==
    IF outcome = "ok"
    THEN search_objects("ObjectTypeUnresolved", store, get_object_type_filters(object_type_spec))
    ELSE Err(RpcError(outcome))

\* Space::get_object_type against a store that answers the search and the lookup
get_object_type(store, object_type_spec) ==
    Let(get_object_type_search(store, object_type_spec, "ok"), LAMBDA object_types :
        Let(get_object_type_match(IdleTask, object_types, object_type_spec), LAMBDA call :
            IF call.pc = "idle" THEN call.res
            ELSE get_object_type_resolved(call.local, store, object_type_spec, "ok")))

GetObjectType(t, object_type_spec, outcome) ==
    /\ Begin(t)
    /\ \E object_types \in {get_object_type_search(records, object_type_spec, outcome)} :
          Step(t, get_object_type_match(NewCall(t, "get_object_type", object_type_spec),
                                        object_types, object_type_spec), FALSE)
    /\ UNCHANGED records

GetObjectTypeResolve(t, outcome) ==
    /\ task[t].op = "get_object_type"
    /\ task[t].pc = "slow_resolve"
    /\ Step(t, Return(task[t], get_objects_request("Relation", task[t].local.recommended_relations),
                      get_object_type_resolved(task[t].local, records, task[t].arg, outcome)),
            FALSE)
    /\ UNCHANGED records

\* Space::create_object_type
CreateObjectType(t, object_type_spec) ==
    /\ Begin(t)
    /\ Step(t, create_object_type_start(NewCall(t, "create_object_type", object_type_spec),
                                        object_type_spec), FALSE)
    /\ UNCHANGED records

\* Space::obtain_object_type, up to the answer of the search of its get_object_type
ObtainObjectTypeGet(t, object_type_spec, outcome) ==
    /\ Begin(t)
    /\ \E object_types \in {get_object_type_search(records, object_type_spec, outcome)} :
       \E call \in {get_object_type_match(NewCall(t, "obtain_object_type", object_type_spec),
                                          object_types, object_type_spec)} :
          Step(t, IF call.pc = "idle" /\ call.res.tag = "Ok" /\ call.res.val.tag = "None"
                  THEN create_object_type_start([call EXCEPT !.res = Pending], object_type_spec)
                  ELSE call, FALSE)
    /\ UNCHANGED records

\* Space::obtain_object_type with one type found: the object type of a get that
\* answers Some is returned
ObtainObjectTypeResolve(t, outcome) ==
    /\ task[t].op = "obtain_object_type"
    /\ task[t].pc = "slow_resolve"
    /\ \E got \in {get_object_type_resolved(task[t].local, records, task[t].arg, outcome)} :
          Step(t, Return(task[t], get_objects_request("Relation", task[t].local.recommended_relations),
                         IF got.tag = "Ok" THEN Ok(got.val.val) ELSE got), FALSE)
    /\ UNCHANGED records

\* a sub-call of create_object_type: obtain_relation up to the answer of its
\* get_relation; an error ends the whole call (try_collect)
SubCallGet(t, relation_spec, outcome) ==
    /\ task[t].op \in {"create_object_type", "obtain_object_type"}
    /\ task[t].pc = "obtain_relations"
    /\ relation_spec \in DOMAIN task[t].local
    /\ task[t].local[relation_spec].pc = "get_relation"
    /\ \E got \in {IF outcome = "ok" THEN get_relation(records, relation_spec)
                   ELSE Err(RpcError(outcome))} :
          Step(t, CASE got.tag = "Ok" /\ got.val.tag = "None" ->
                           [Sent(task[t], get_relation_request(relation_spec))
                               EXCEPT !.local[relation_spec].pc = "create_relation"]
                    [] got.tag = "Ok" /\ got.val.tag = "Some" ->
                           SubCallDone(Sent(task[t], get_relation_request(relation_spec)), relation_spec,
                                       got.val.val)
                    [] OTHER -> Return(task[t], get_relation_request(relation_spec), got), FALSE)
    /\ UNCHANGED records

\* a sub-call of create_object_type: the create_relation of obtain_relation
SubCallCreate(t, relation_spec, outcome) ==
    /\ task[t].op \in {"create_object_type", "obtain_object_type"}
    /\ task[t].pc = "obtain_relations"
    /\ relation_spec \in DOMAIN task[t].local
    /\ task[t].local[relation_spec].pc = "create_relation"
    /\ CanAnswer(outcome)
    /\ IF outcome = "ok"
       THEN \E details \in {object_create_relation(records, RelationSpec_to_struct(relation_spec))} :
            \E relation \in {create_relation_response(details)} :
                /\ records' = Append(records, details)
                /\ Step(t, IF relation.tag = "Ok"
                           THEN SubCallDone(Sent(task[t], object_create_relation_request(relation_spec)),
                                            relation_spec, relation.val)
                           ELSE Return(task[t], object_create_relation_request(relation_spec),
                                       relation), TRUE)
       ELSE /\ UNCHANGED records
            /\ Step(t, Return(task[t], object_create_relation_request(relation_spec),
                              Err(RpcError(outcome))), FALSE)

\* Space::create_object_type, the create request with the ids of the relations
CreateObjectTypeSend(t, outcome) ==
    /\ task[t].op \in {"create_object_type", "obtain_object_type"}
    /\ task[t].pc = "create_object_type"
    /\ CanAnswer(outcome)
    /\ \E recommended_relations \in
               {{task[t].local[rs].relation : rs \in DOMAIN task[t].local}} :
       \E sending \in {object_create_object_type_request(task[t].arg,
                           SortedSeq({relation.id : relation \in recommended_relations}))} :
          IF outcome = "ok"
          THEN \E details \in {object_create_object_type(records, sending.request.details)} :
                  /\ records' = Append(records, details)
                  /\ Step(t, Return(task[t], sending,
                                    create_object_type_response(details, recommended_relations)),
                          TRUE)
          ELSE /\ UNCHANGED records
               /\ Step(t, Return(task[t], sending, Err(RpcError(outcome))), FALSE)

(***************************************************************************)
(* Objects                                                                 *)
(***************************************************************************)
ObjectSpec(ty, name) == [name |-> name, ty |-> ty]

\* a faulty request: the objects are searched by their name alone
get_object_filters_by_name(object_spec) ==
    <<Filter("name", "Like", into_prost_String(object_spec.name))>>

\* Space::get_object, the request (lines 354-373)
get_object_filters(object_spec) ==
    <<Filter("name", "Like", into_prost_String(object_spec.name)),
      Filter("type", "Equal", into_prost_ObjectId(object_spec.ty.id))>>

get_object_request(object_spec) ==
    object_search_request("ObjectUnresolved", get_object_filters(object_spec))

\* Space::create_object, the request (lines 390-405)
object_create_request(object, details) ==
    [request |-> [details |-> details, object_type_unique_key |-> object.ty.unique_key,
                  space_id |-> SpaceId],
     rpc |-> "object_create"]

\* Space::get_object, the match on the number of objects found (lines 379-386)
get_object_match(objects, object_spec) ==
    CASE Len(objects) = 0 -> Ok(None)
      [] Len(objects) = 1 -> Ok(Some(objects[1]))
      [] OTHER ->
            Err(Status("failed_precondition",
                   [name |-> object_spec.name,
                    what |-> "More than one object with same name"]))

\* Space::get_object against a store that answers the search
get_object(store, object_spec) ==
    Let(search_objects("ObjectUnresolved", store, get_object_filters(object_spec)),
        LAMBDA objects :
            IF objects.tag # "Ok" THEN objects
            ELSE get_object_match(objects.val, object_spec))

\* Space::create_object, what it returns for the details of the response
create_object_response(details) ==
    Let(ObjectUnresolved_try_from_prost(details), LAMBDA object :
        IF object.tag = "Err" THEN Err(Status("internal", object.err)) ELSE object)

GetObject(t, object_spec, outcome) ==
    /\ Begin(t)
    /\ \E res \in {IF outcome = "ok" THEN get_object(records, object_spec)
                   ELSE Err(RpcError(outcome))} :
          Step(t, [Return(NewCall(t, "get_object", object_spec), get_object_request(object_spec), res)
                      EXCEPT !.held = IF res.tag = "Ok" /\ res.val.tag = "Some"
                                      THEN res.val.val ELSE @], FALSE)
    /\ UNCHANGED records

\* Space::create_object, run by call for the description object: the description is
\* converted, and so validated, before the request exists
create_object(t, call, object, outcome) ==
    \E details \in ObjectDescription_try_into(object) :
        IF details.tag = "Err"
        THEN /\ outcome = "ok"
             /\ UNCHANGED records
             /\ Step(t, [call EXCEPT !.pc = "idle", !.local = <<>>,
                            !.res = Err(Status("failed_precondition", details.err))], FALSE)
        ELSE /\ CanAnswer(outcome)
             /\ IF outcome = "ok"
                THEN \E record \in {object_create(records, object.ty.unique_key, details.val)} :
                     \E res \in {create_object_response(record)} :
                         /\ records' = Append(records, record)
                         /\ Step(t, [Return(call, object_create_request(object, details.val), res)
                                        EXCEPT !.held = IF res.tag = "Ok" THEN res.val ELSE @],
                                 TRUE)
                ELSE /\ UNCHANGED records
                     /\ Step(t, Return(call, object_create_request(object, details.val),
                                       Err(RpcError(outcome))), FALSE)

CreateObject(t, object, outcome) ==
    /\ Begin(t)
    /\ create_object(t, NewCall(t, "create_object", object), object, outcome)

\* a faulty obtain_object: it creates the object without a get_object
ObtainObjectAlwaysCreate(t, object_spec, outcome) ==
    /\ Begin(t)
    /\ create_object(t, NewCall(t, "obtain_object", object_spec),
                     as_description(object_spec), outcome)

\* Space::obtain_object, up to the answer of its get_object
ObtainObjectGet(t, object_spec, outcome) ==
    /\ Begin(t)
    /\ \E got \in {IF outcome = "ok" THEN get_object(records, object_spec)
                   ELSE Err(RpcError(outcome))} :
          Step(t, CASE got.tag = "Ok" /\ got.val.tag = "None" ->
                           Goto(NewCall(t, "obtain_object", object_spec),
                                get_object_request(object_spec), "create_object", <<>>)
                    [] got.tag = "Ok" /\ got.val.tag = "Some" ->
                           [Return(NewCall(t, "obtain_object", object_spec),
                                   get_object_request(object_spec), Ok(got.val.val))
                               EXCEPT !.held = got.val.val]
                    [] OTHER -> Return(NewCall(t, "obtain_object", object_spec),
                                       get_object_request(object_spec), got), FALSE)
    /\ UNCHANGED records

\* Space::obtain_object, the create_object after a get_object that found nothing
ObtainObjectCreate(t, outcome) ==
    /\ task[t].op = "obtain_object"
    /\ task[t].pc = "create_object"
    /\ create_object(t, task[t], as_description(task[t].arg), outcome)

\* Object::get, lines 185-191: the Value stored under the relation's key
Object_get_kind(self, key) ==
    IF key.relation_key[1] \notin DOMAIN self.relations THEN None
    ELSE IF self.relations[key.relation_key[1]].kind = "Empty" THEN None
    ELSE Some(self.relations[key.relation_key[1]])

Expect(result, variant) ==
    IF result.tag = "Ok" THEN Some(RelationValue(variant, result.val)) ELSE Panic

\* a faulty read: the variant follows the kind of the stored value, so that every
\* stored string is read as a Text
Object_get_scalar_by_kind(key, kind) ==
    CASE key.format.format \in {"Text", "Url", "Email", "Phone"} ->
            Expect(try_from_prost_String(kind), "Text")
      [] key.format.format = "Number" -> Expect(try_from_prost_f64(kind), "Number")
      [] key.format.format = "Date" ->
            Let(try_from_prost_f64(kind), LAMBDA number :
                IF number.tag = "Ok"
                THEN Some(RelationValue("Date", from_timestamp(number.val, 0)))
                ELSE Panic)
      [] key.format.format = "Checkbox" ->
            Expect(try_from_prost_bool(kind), "Checkbox")
      [] OTHER -> Panic

\* Object::get, lines 201-231 and 245: the formats that are read without a lookup
Object_get_scalar(key, kind) ==
    CASE key.format.format \in {"Text", "Url", "Email", "Phone"} ->
            Expect(try_from_prost_String(kind), key.format.format)
      [] key.format.format = "Number" -> Expect(try_from_prost_f64(kind), "Number")
      [] key.format.format = "Date" ->
            Let(try_from_prost_f64(kind), LAMBDA number :
                IF number.tag = "Ok"
                THEN Some(RelationValue("Date", from_timestamp(number.val, 0)))
                ELSE Panic)
      [] key.format.format = "Checkbox" ->
            Expect(try_from_prost_bool(kind), "Checkbox")
      [] OTHER -> Panic    \* todo!()

\* a faulty lookup: the first of the ids alone is looked up
Object_get_first_object(ids, store, outcome) ==
    Let(IF outcome = "ok"
        THEN get_objects("ObjectUnresolved", store,
                         IF Len(ids) = 0 THEN {} ELSE {ids[1]})
        ELSE Err(RpcError(outcome)),
        LAMBDA objects :
            IF objects.tag # "Ok" THEN Panic
            ELSE Some(RelationValue("Object", objects.val)))

\* a faulty lookup: the hidden objects of the ids are decoded like the others
Object_get_objects_hidden(ids, store, outcome) ==
    Let(object_search(store, search_filters("ObjectUnresolved",
                                            get_objects_filters(SeqToSet(ids)))),
        LAMBDA found :
            IF outcome # "ok" THEN Panic
            ELSE Some(RelationValue("Object",
                     MapSeq(found, LAMBDA doc :
                         search_output_record_hidden("ObjectUnresolved", doc).val))))

\* Object::get, lines 232-244: the objects of an Object relation are looked up by
\* their ids; an error of the lookup is a panic
Object_get_objects(ids, store, outcome) ==
    Let(IF outcome = "ok" THEN get_objects("ObjectUnresolved", store, SeqToSet(ids))
        ELSE Err(RpcError(outcome)),
        LAMBDA objects :
            IF objects.tag # "Ok" THEN Panic
            ELSE Some(RelationValue("Object", objects.val)))

\* Object::get, the request of the lookup of an Object relation that has a value
Object_get_request(self, key) ==
    get_objects_request("ObjectUnresolved",
        SeqToSet(try_from_prost_Vec_ObjectId(Object_get_kind(self, key).val).val))

\* Space::set_relation, the request: the object and the detail
set_relation_request(id, detail) ==
    [request |-> [id |-> id, details |-> <<into_raw_parts(detail)>>],
     rpc |-> "set_relation_value"]

\* Object::get: the lookup is needed for an Object relation that has a value
NeedsLookup(self, key) ==
    key.format.format = "Object" /\ Object_get_kind(self, key).tag = "Some"

Object_get(self, key, store, outcome) ==
    Let(Object_get_kind(self, key), LAMBDA kind :
        IF kind.tag = "None" THEN None
        ELSE IF key.format.format = "Object"
             THEN Let(try_from_prost_Vec_ObjectId(kind.val), LAMBDA ids :
                      IF ids.tag # "Ok" THEN Panic
                      ELSE Object_get_objects(ids.val, store, outcome))
             ELSE Object_get_scalar(key, kind.val))

\* Space::set_relation: the set-relation-value request for the object; the backend
\* stores the value under the key
set_relation(store, id, detail) ==
    LET parts == into_raw_parts(detail) IN
    [store EXCEPT ![id] = Extend(@, parts[1] :> parts[2])]

\* Object::set, up to the validation: the previous value is read first, then the
\* value is validated, and only a validated value goes on to set_relation
ObjectSet(t, key, value, outcome) ==
    /\ Begin(t)
    /\ task[t].held.id # 0
    /\ ~NeedsLookup(task[t].held, key) => outcome = "ok"
    /\ \E previous_value \in {Object_get(task[t].held, key, records, outcome)} :
       \E detail \in {validate(key, value)} :
       \E call \in {IF NeedsLookup(task[t].held, key)
                    THEN Sent(NewCall(t, "set", [value |-> value, key |-> key]),
                              Object_get_request(task[t].held, key))
                    ELSE NewCall(t, "set", [value |-> value, key |-> key])} :
          Step(t, CASE previous_value.tag = "Panic" -> [call EXCEPT !.res = Panic]
                    [] detail.tag = "Err" ->
                           [call EXCEPT !.res = Err(Status("failed_precondition", detail.err))]
                    [] OTHER ->
                           [call EXCEPT !.pc = "set_relation",
                                        !.local = [detail |-> detail.val,
                                                   previous_value |-> previous_value]], FALSE)
    /\ UNCHANGED records

\* Object::set, the set_relation of a validated value
ObjectSetRelation(t, outcome) ==
    /\ task[t].op = "set"
    /\ task[t].pc = "set_relation"
    /\ IF outcome = "ok"
       THEN /\ records' = set_relation(records, task[t].held.id, task[t].local.detail)
            /\ Step(t, Return(task[t], set_relation_request(task[t].held.id, task[t].local.detail),
                              Ok(task[t].local.previous_value)), TRUE)
       ELSE /\ UNCHANGED records
            /\ Step(t, Return(task[t],
                              set_relation_request(task[t].held.id, task[t].local.detail),
                              Err(RpcError(outcome))), FALSE)

\* Object::get on the object the task holds: a relation of format Object that has
\* a value sends the lookup of its objects, the other reads send nothing
ObjectGet(t, key, outcome) ==
    /\ Begin(t)
    /\ task[t].held.id # 0
    /\ ~NeedsLookup(task[t].held, key) => outcome = "ok"
    /\ \E call \in {IF NeedsLookup(task[t].held, key)
                    THEN Sent(NewCall(t, "get", key), Object_get_request(task[t].held, key))
                    ELSE NewCall(t, "get", key)} :
          Step(t, [call EXCEPT !.res = Object_get(task[t].held, key, records, outcome)], FALSE)
    /\ UNCHANGED records

(***************************************************************************)
(* What a caller can hold: the entities of the store, as the searches      *)
(* decode them                                                             *)
(***************************************************************************)
Relations(store) == SeqToSet(search_objects("Relation", store, <<>>).val)

RelationNamed(store, name) ==
    CHOOSE relation \in Relations(store) : relation.name = name

ObjectTypes(store) ==
    {slow_resolve(object_type, store).val :
        object_type \in SeqToSet(search_objects("ObjectTypeUnresolved", store, <<>>).val)}

\* the visible objects of the store, in store order
Objects(store) == search_objects("ObjectUnresolved", store, <<>>).val

ObjectName == <<"o">>

\* the objects a caller refers to: of each type the first visible object, in store order
Referred(objects) ==
    SelectSeq(objects, LAMBDA object :
        \A i \in 1..Len(objects) :
            objects[i].ty = object.ty => objects[i].id >= object.id)

\* the values written: a date, a text, and the lists of one referred object
Values(objects) ==
    <<RelationValue("Date", NaiveDateTime(1, 0)), RelationValue("Text", <<"x">>)>>
    \o [i \in 1..Len(Referred(objects)) |-> RelationValue("Object", <<Referred(objects)[i]>>)]

\* the relation values of the descriptions: none, a valid Due, an invalid Due, an
\* invalid Due with an invalid Ref, and a valid Due with each list of one referred
\* object
Text_x == RelationValue("Text", <<"x">>)

RelationValues(due_key, ref_key, objects) ==
    << <<>>,
       due_key :> RelationValue("Date", NaiveDateTime(1, 0)),
       due_key :> Text_x,
       (due_key :> Text_x) @@ (ref_key :> Text_x) >>
    \o [i \in 1..Len(Referred(objects)) |->
           (due_key :> RelationValue("Date", NaiveDateTime(1, 0)))
           @@ (ref_key :> RelationValue("Object", <<Referred(objects)[i]>>))]

\* the outcomes of an RPC where the error codes of the response are left to the
\* other specifications: an answer or a failed transport
AnswerOrNot == {"ok", "transport"}

ObjectTypeSpecs ==
    {ObjectTypeSpec(PageName, {DueDate}), ObjectTypeSpec(PageName, {}),
     ObjectTypeSpec(PageName, {DueDate, TagAny}),
     ObjectTypeSpec(BookName, {DueDate}), ObjectTypeSpec(BookName, {DueDate, TagAny}),
     ObjectTypeSpec(BookName, {TagAny, TagPage}), ObjectTypeSpec(BookName, {DueText, TagAny})}

(***************************************************************************)
(* Specifications                                                          *)
(***************************************************************************)
\* one caller of the relation operations
NextRelation ==
    \/ \E relation_spec \in RelationSpecs, outcome \in RpcOutcomes :
          \/ GetRelation("t1", relation_spec, outcome)
          \/ CreateRelation("t1", relation_spec, outcome)
          \/ ObtainRelationGet("t1", relation_spec, outcome)
    \/ \E outcome \in RpcOutcomes : ObtainRelationCreate("t1", outcome)

SpecRelation == Init /\ [][NextRelation]_vars

\* two concurrent callers reconciling the new name Tag
NextRace ==
    \/ \E t \in Tasks, relation_spec \in {TagAny, TagPage}, outcome \in RpcOutcomes :
          \/ GetRelation(t, relation_spec, outcome)
          \/ ObtainRelationGet(t, relation_spec, outcome)
    \/ \E t \in Tasks, outcome \in RpcOutcomes : ObtainRelationCreate(t, outcome)

SpecRace == Init /\ [][NextRace]_vars

\* one caller of the object type operations
NextObjectType ==
    \/ \E object_type_spec \in ObjectTypeSpecs :
          \/ CreateObjectType("t1", object_type_spec)
          \/ \E outcome \in RpcOutcomes :
                \/ GetObjectType("t1", object_type_spec, outcome)
                \/ ObtainObjectTypeGet("t1", object_type_spec, outcome)
    \/ \E relation_spec \in RelationSpecs, outcome \in RpcOutcomes :
          \/ SubCallGet("t1", relation_spec, outcome)
          \/ SubCallCreate("t1", relation_spec, outcome)
    \/ \E outcome \in RpcOutcomes :
          \/ GetObjectTypeResolve("t1", outcome)
          \/ ObtainObjectTypeResolve("t1", outcome)
          \/ CreateObjectTypeSend("t1", outcome)

SpecObjectType == Init /\ [][NextObjectType]_vars

\* one caller obtaining the object type Bk in a space whose store has the relation
\* Due and the object type Pg alone
InitNewSpace ==
    /\ records = SubSeq(InitRecords, 1, 2)
    /\ task = [t \in Tasks |-> IdleTask]

NewObjectTypeSpecs ==
    {ObjectTypeSpec(BookName, {DueDate}), ObjectTypeSpec(BookName, {DueDate, TagAny}),
     ObjectTypeSpec(BookName, {TagAny, TagPage})}

NextNewObjectType ==
    \/ \E object_type_spec \in NewObjectTypeSpecs, outcome \in RpcOutcomes :
          ObtainObjectTypeGet("t1", object_type_spec, outcome)
    \/ \E relation_spec \in {DueDate, TagAny, TagPage}, outcome \in RpcOutcomes :
          \/ SubCallGet("t1", relation_spec, outcome)
          \/ SubCallCreate("t1", relation_spec, outcome)
    \/ \E outcome \in RpcOutcomes :
          \/ ObtainObjectTypeResolve("t1", outcome)
          \/ CreateObjectTypeSend("t1", outcome)

SpecNewObjectType == InitNewSpace /\ [][NextNewObjectType]_vars

\* one caller of the object operations; the types and the relations it holds are
\* those of the store it started with, and it gives relation values to the objects
\* of type Pg alone
Due == RelationNamed(InitRecords, DueName)
Ref == RelationNamed(InitRecords, RefName)

NextObject ==
    \/ \E ty \in ObjectTypes(InitRecords), outcome \in AnswerOrNot :
          \/ GetObject("t1", ObjectSpec(ty, ObjectName), outcome)
          \/ ObtainObjectGet("t1", ObjectSpec(ty, ObjectName), outcome)
          \/ \E relations \in {RelationValues(Due, Ref, Objects(records))} :
             \E r \in 1..Len(relations) :
                /\ ty.name = NoteName => r = 1
                /\ CreateObject("t1", ObjectDescription(ty, ObjectName, relations[r]), outcome)
    \/ \E key \in {Due, Ref}, outcome \in AnswerOrNot :
       \E values \in {Values(Objects(records))} :
       \E v \in 1..Len(values) :
          ObjectSet("t1", key, values[v], outcome)
    \/ \E outcome \in AnswerOrNot :
          \/ ObtainObjectCreate("t1", outcome)
          \/ ObjectSetRelation("t1", outcome)

SpecObject == Init /\ [][NextObject]_vars

\* one caller of every kind of operation, with few inputs of each kind
Next ==
    \/ \E relation_spec \in {DueDate, DueText, TagAny}, outcome \in AnswerOrNot :
          \/ GetRelation("t1", relation_spec, outcome)
          \/ CreateRelation("t1", relation_spec, outcome)
          \/ ObtainRelationGet("t1", relation_spec, outcome)
    \/ \E outcome \in AnswerOrNot : ObtainRelationCreate("t1", outcome)
    \/ \E object_type_spec \in {ObjectTypeSpec(PageName, {DueDate}), ObjectTypeSpec(PageName, {}),
                                ObjectTypeSpec(BookName, {}), ObjectTypeSpec(BookName, {TagAny})} :
          \/ CreateObjectType("t1", object_type_spec)
          \/ \E outcome \in AnswerOrNot :
                \/ GetObjectType("t1", object_type_spec, outcome)
                \/ ObtainObjectTypeGet("t1", object_type_spec, outcome)
    \/ \E outcome \in AnswerOrNot :
          \/ SubCallGet("t1", TagAny, outcome)
          \/ SubCallCreate("t1", TagAny, outcome)
          \/ GetObjectTypeResolve("t1", outcome)
          \/ ObtainObjectTypeResolve("t1", outcome)
          \/ CreateObjectTypeSend("t1", outcome)
    \/ \E ty \in ObjectTypes(InitRecords), outcome \in AnswerOrNot :
          \/ GetObject("t1", ObjectSpec(ty, ObjectName), outcome)
          \/ CreateObject("t1", ObjectDescription(ty, ObjectName, <<>>), outcome)
          \/ ObtainObjectGet("t1", ObjectSpec(ty, ObjectName), outcome)
    \/ \E outcome \in AnswerOrNot : ObtainObjectCreate("t1", outcome)

Spec == Init /\ [][Next]_vars

\* one caller of every kind of operation, Object::set included.  It asks for Due
\* with another format and for the new name Tag, for the types Pg as it is and Bk
\* with Due in either format, for the objects of type Pg, and it sets Due and Ref on
\* the object it holds.  Every recommended relation asked for has the name Due,
\* which a relation of the store has, so that no sub-call goes on to create.
EveryObjectTypeSpecs ==
    {ObjectTypeSpec(PageName, {DueDate}), ObjectTypeSpec(BookName, {DueText}),
     ObjectTypeSpec(BookName, {DueDate})}

NextEvery ==
    \/ \E relation_spec \in {DueText, TagAny}, outcome \in AnswerOrNot :
          \/ GetRelation("t1", relation_spec, outcome)
          \/ CreateRelation("t1", relation_spec, outcome)
          \/ ObtainRelationGet("t1", relation_spec, outcome)
    \/ \E outcome \in AnswerOrNot : ObtainRelationCreate("t1", outcome)
    \/ \E object_type_spec \in EveryObjectTypeSpecs :
          \/ CreateObjectType("t1", object_type_spec)
          \/ GetObjectType("t1", object_type_spec, "ok")
          \/ ObtainObjectTypeGet("t1", object_type_spec, "ok")
    \/ \E relation_spec \in {DueDate, DueText} : SubCallGet("t1", relation_spec, "ok")
    \/ \E outcome \in AnswerOrNot :
          \/ GetObjectTypeResolve("t1", outcome)
          \/ ObtainObjectTypeResolve("t1", outcome)
          \/ CreateObjectTypeSend("t1", outcome)
    \/ \E ty \in {object_type \in ObjectTypes(InitRecords) : object_type.name = PageName} :
          \/ GetObject("t1", ObjectSpec(ty, ObjectName), "ok")
          \/ CreateObject("t1", ObjectDescription(ty, ObjectName, <<>>), "ok")
          \/ ObtainObjectGet("t1", ObjectSpec(ty, ObjectName), "ok")
    \/ ObtainObjectCreate("t1", "ok")
    \/ \E key \in {Due, Ref} :
       \E values \in {Values(Objects(records))} :
       \E v \in 1..Len(values) :
          ObjectSet("t1", key, values[v], "ok")
    \/ \E outcome \in AnswerOrNot : ObjectSetRelation("t1", outcome)

SpecEvery == Init /\ [][NextEvery]_vars

\* the formats and the values of relation.rs on their own: a caller computes
\* is_superset of two formats, or validates a value against a relation.  The types
\* are Pg, Nt and one more; there is one object of each type, and a list has up to
\* two objects.
TypeIds == {2, 4, 6}

Formats == {Scalar(f) : f \in ScalarFormats} \cup {ObjectFormat(types) : types \in SUBSET TypeIds}

ObjectOf(ty) == [id |-> ty + 5, name |-> ObjectName, relations |-> <<>>, ty |-> ty]

ObjectLists ==
    {<<>>} \cup {<<ObjectOf(ty)>> : ty \in TypeIds}
    \cup {<<ObjectOf(a), ObjectOf(b)>> : a, b \in TypeIds}

\* one value of each scalar variant
ScalarValues ==
    <<RelationValue("Text", <<"x">>), RelationValue("Number", 1), RelationValue("Date", NaiveDateTime(1, 0)),
      RelationValue("Checkbox", TRUE), RelationValue("Url", <<"x">>),
      RelationValue("Email", <<"x">>), RelationValue("Phone", <<"x">>)>>

\* a relation of the format
RelationOf(relation_format) ==
    [id |-> 1, format |-> relation_format, name |-> DueName, relation_key |-> <<KeyToken[1]>>]

IsSuperset(t, self, other) ==
    /\ Begin(t)
    /\ Step(t, [NewCall(t, "is_superset", <<self, other>>) EXCEPT !.res = is_superset(self, other)],
            FALSE)
    /\ UNCHANGED records

Validate(t, relation, value) ==
    /\ Begin(t)
    /\ Step(t, [NewCall(t, "validate", [value |-> value, key |-> relation])
                   EXCEPT !.res = validate(relation, value)], FALSE)
    /\ UNCHANGED records

NextFormat ==
    \/ \E self \in Formats, other \in Formats : IsSuperset("t1", self, other)
    \/ \E relation_format \in Formats :
          \/ \E v \in 1..Len(ScalarValues) :
                Validate("t1", RelationOf(relation_format), ScalarValues[v])
          \/ \E objects \in ObjectLists :
                Validate("t1", RelationOf(relation_format), RelationValue("Object", objects))

SpecFormat == Init /\ [][NextFormat]_vars

\* one caller that writes and reads the values of one relation.  The space has the
\* type Pg, the relation Rel, of one of the formats that have values, and two
\* objects of type Pg; the caller creates objects of type Pg with or without a value
\* of Rel, and gets and sets Rel on the object that its last create returned.
RelName == <<"R", "e", "l">>

ValueFormats ==
    {Scalar(f) : f \in {"Text", "Number", "Date", "Checkbox", "Url", "Email", "Phone"}}
    \cup {ObjectFormat({1})}

\* the space, as the create requests of the backend leave it
WithPage == <<object_create_object_type(<<>>, to_struct(ObjectTypeSpec(PageName, {}), <<>>))>>

WithRelation(relation_format) ==
    Append(WithPage,
           object_create_relation(WithPage,
               RelationSpec_to_struct(RelationSpec(RelName, relation_format))))

WithObject(store) ==
    Append(store, object_create(store, <<"u", Digit[1]>>, [name |-> into_prost_String(ObjectName)]))

ValueSpace(relation_format) == WithObject(WithObject(WithRelation(relation_format)))

InitValue ==
    /\ records \in {ValueSpace(relation_format) : relation_format \in ValueFormats}
    /\ task = [t \in Tasks |-> IdleTask]

\* the values a caller sets: two values of the relation's variant (for an Object
\* relation the lists of the first two objects of the space: none, the first, both
\* in either order) and a value of another variant
SetValues(relation_format, objects) ==
    CASE relation_format.format \in {"Text", "Url", "Email", "Phone"} ->
            <<RelationValue(relation_format.format, <<"x">>),
              RelationValue(relation_format.format, <<"y">>), RelationValue("Number", 1)>>
      [] relation_format.format = "Number" ->
            <<RelationValue("Number", 1), RelationValue("Number", 2), Text_x>>
      [] relation_format.format = "Date" ->
            <<RelationValue("Date", NaiveDateTime(1, 0)),
              RelationValue("Date", NaiveDateTime(2, 0)), Text_x>>
      [] relation_format.format = "Checkbox" ->
            <<RelationValue("Checkbox", TRUE), RelationValue("Checkbox", FALSE), Text_x>>
      [] relation_format.format = "Object" ->
            <<RelationValue("Object", <<>>), RelationValue("Object", <<objects[1]>>),
              RelationValue("Object", <<objects[1], objects[2]>>),
              RelationValue("Object", <<objects[2], objects[1]>>), Text_x>>

\* the values a caller creates objects with: those, and for a Date relation a date
\* that is not a whole second
CreateValues(relation_format, objects) ==
    IF relation_format.format = "Date"
    THEN Append(SetValues(relation_format, objects), RelationValue("Date", NaiveDateTime(1, 5)))
    ELSE SetValues(relation_format, objects)

NextValue ==
    \/ \E key \in {RelationNamed(records, RelName)}, outcome \in AnswerOrNot :
       \E ty \in ObjectTypes(records) :
       \E values \in {CreateValues(key.format, Objects(records))} :
       \E v \in 0..Len(values) :
          CreateObject("t1", ObjectDescription(ty, ObjectName,
                                 IF v = 0 THEN <<>> ELSE key :> values[v]), outcome)
    \/ \E key \in {RelationNamed(records, RelName)}, outcome \in AnswerOrNot :
          ObjectGet("t1", key, outcome)
    \/ \E key \in {RelationNamed(records, RelName)}, outcome \in AnswerOrNot :
       \E values \in {SetValues(key.format, Objects(records))} :
       \E v \in 1..Len(values) :
          ObjectSet("t1", key, values[v], outcome)
    \/ \E outcome \in AnswerOrNot : ObjectSetRelation("t1", outcome)

SpecValue == InitValue /\ [][NextValue]_vars

\* one caller of every kind of operation, as in Spec, who also asks for the type Bk
\* with two recommended relations of the same name, Tag, in two formats
TagTwice == ObjectTypeSpec(BookName, {TagAny, TagPage})

NextCore ==
    \/ Next
    \/ CreateObjectType("t1", TagTwice)
    \/ \E outcome \in AnswerOrNot :
          \/ ObtainObjectTypeGet("t1", TagTwice, outcome)
          \/ SubCallGet("t1", TagPage, outcome)
          \/ SubCallCreate("t1", TagPage, outcome)

SpecCore == Init /\ [][NextCore]_vars

\* one caller searching a space that another client of the backend has written to.
\* The store is the one of a new space and one or two records of the other client:
\* hidden records, a record that says it is not hidden, an object of another type,
\* entities whose names contain a requested name, a record that lacks a field of
\* its kind, and an object whose Ref lists itself, an object type, a hidden object
\* and an id that no record has.
Hide(doc) == Extend(doc, [isHidden |-> into_prost_bool(TRUE)])
Shown(doc) == Extend(doc, [isHidden |-> into_prost_bool(FALSE)])

due == <<"d", "u", "e">>
BooksName == <<"B", "k", "s">>
PageKey == <<"u", Digit[2]>>
NoteKey == <<"u", Digit[4]>>

NamedO == [name |-> into_prost_String(ObjectName)]

\* the object o of type Pg whose Ref lists the ids 5 (itself), 2 (the object type
\* Pg), 6 and 9
Referring(store) ==
    object_create(store, PageKey,
        Extend(NamedO, KeyToken[3] :> into_prost_Vec(
            MapSeq(<<5, 2, 6, 9>>, into_prost_ObjectId))))

OtherClient(store) ==
    {<<Hide(object_create_relation(store, RelationSpec_to_struct(TagAny)))>>,
     <<Hide(object_create_relation(store, RelationSpec_to_struct(DueDate)))>>,
     <<Shown(object_create_relation(store, RelationSpec_to_struct(TagAny)))>>,
     <<Hide(object_create_object_type(store, to_struct(ObjectTypeSpec(BookName, {}), <<>>)))>>,
     <<object_create_object_type(store, to_struct(ObjectTypeSpec(BooksName, {}), <<>>))>>,
     <<RemoveField(object_create_object_type(store,
                       to_struct(ObjectTypeSpec(BookName, {}), <<>>)), "recommendedRelations")>>,
     <<Hide(object_create(store, PageKey, NamedO))>>,
     <<object_create(store, NoteKey, NamedO)>>,
     <<object_create(store, PageKey, [name |-> into_prost_String(<<"o", "2">>)])>>,
     <<Extend(object_create(store, PageKey, NamedO), [layout |-> LayoutCodeOf("Set")])>>,
     <<Referring(store), Hide(object_create(Append(store, Referring(store)), PageKey, NamedO))>>,
     <<Referring(store)>>}

InitSearch ==
    /\ records \in {InitRecords \o other : other \in OtherClient(InitRecords)}
    /\ task = [t \in Tasks |-> IdleTask]

SearchRelationSpecs ==
    {DueDate, DueText, RelationSpec(due, Scalar("Date")), RelationSpec(due, Scalar("Text")),
     TagAny}

SearchObjectTypeSpecs ==
    {ObjectTypeSpec(PageName, {DueDate}), ObjectTypeSpec(<<"p", "g">>, {DueDate}),
     ObjectTypeSpec(BookName, {})}

NextSearch ==
    \/ \E relation_spec \in SearchRelationSpecs, outcome \in AnswerOrNot :
          \/ GetRelation("t1", relation_spec, outcome)
          \/ ObtainRelationGet("t1", relation_spec, outcome)
    \/ \E outcome \in AnswerOrNot : ObtainRelationCreate("t1", outcome)
    \/ \E object_type_spec \in SearchObjectTypeSpecs, outcome \in AnswerOrNot :
          \/ GetObjectType("t1", object_type_spec, outcome)
          \/ ObtainObjectTypeGet("t1", object_type_spec, outcome)
    \/ \E outcome \in AnswerOrNot :
          \/ GetObjectTypeResolve("t1", outcome)
          \/ ObtainObjectTypeResolve("t1", outcome)
          \/ CreateObjectTypeSend("t1", outcome)
    \/ \E ty \in ObjectTypes(InitRecords), outcome \in AnswerOrNot :
          \/ GetObject("t1", ObjectSpec(ty, ObjectName), outcome)
          \/ ObtainObjectGet("t1", ObjectSpec(ty, ObjectName), outcome)
    \/ \E outcome \in AnswerOrNot :
          \/ ObtainObjectCreate("t1", outcome)
          \/ ObjectGet("t1", Ref, outcome)

SpecSearch == InitSearch /\ [][NextSearch]_vars

\* one caller whose create_object_type or obtain_object_type fails on one of its
\* relations, and who reconciles the relations of the failed call afterwards
PartialObjectTypeSpecs ==
    {ObjectTypeSpec(BookName, {DueText, TagAny}),
     ObjectTypeSpec(BookName, {DueDate, TagAny}),
     ObjectTypeSpec(BookName, {DueText, TagAny, TagPage})}

NextPartial ==
    \/ \E object_type_spec \in PartialObjectTypeSpecs :
          \/ CreateObjectType("t1", object_type_spec)
          \/ \E outcome \in AnswerOrNot :
                ObtainObjectTypeGet("t1", object_type_spec, outcome)
    \/ \E relation_spec \in {DueDate, DueText, TagAny, TagPage}, outcome \in AnswerOrNot :
          \/ SubCallGet("t1", relation_spec, outcome)
          \/ SubCallCreate("t1", relation_spec, outcome)
          \/ ObtainRelationGet("t1", relation_spec, outcome)
    \/ \E outcome \in AnswerOrNot :
          \/ ObtainRelationCreate("t1", outcome)
          \/ ObtainObjectTypeResolve("t1", outcome)
          \/ CreateObjectTypeSend("t1", outcome)

SpecPartial == Init /\ [][NextPartial]_vars

\* a ProstStruct that a caller takes fields from: the store holds its document
\* alone.  The document has a field of every kind, a field without a kind, a list
\* of ids one of which comes twice, and lists whose first element that does not
\* decode has no kind, is a number, or is a string that is no id.
TakeDoc ==
    [name |-> into_prost_String(DueName),
     relationFormatObjectTypes |-> into_prost_Vec(<<into_prost_ObjectId(1), EmptyValue,
                                                    into_prost_f64(1)>>),
     layout |-> into_prost_f64(LayoutCode["Relation"]),
     recommendedRelations |-> into_prost_Vec(<<into_prost_ObjectId(2), into_prost_ObjectId(1),
                                               into_prost_ObjectId(2)>>),
     isHidden |-> into_prost_bool(TRUE),
     featuredRelations |-> into_prost_Vec(<<into_prost_ObjectId(1), into_prost_f64(1),
                                            EmptyValue>>),
     links |-> into_prost_Vec(<<into_prost_String(DueName), EmptyValue>>),
     description |-> EmptyValue]

TakeFields == DOMAIN TakeDoc \cup {"id"}

TakeTypes == {"String", "f64", "bool", "Vec_ObjectId", "BTreeSet_ObjectId"}

InitTake ==
    /\ records = <<TakeDoc>>
    /\ task = [t \in Tasks |-> IdleTask]

Take(t, T, field) ==
    /\ Begin(t)
    /\ \E taken \in {ProstStruct_take(records[1], T, field)} :
          /\ records' = <<taken.inner>>
          /\ Step(t, [NewCall(t, "take", [field |-> field, T |-> T])
                         EXCEPT !.res = taken.result], TRUE)

TakeOptional(t, T, field) ==
    /\ Begin(t)
    /\ \E taken \in {ProstStruct_take_optional(records[1], T, field)} :
          /\ records' = <<taken.inner>>
          /\ Step(t, [NewCall(t, "take_optional", [field |-> field, T |-> T])
                         EXCEPT !.res = taken.result], TRUE)

NextTake ==
    \E T \in TakeTypes, field \in TakeFields :
        \/ Take("t1", T, field)
        \/ TakeOptional("t1", T, field)

SpecTake == InitTake /\ [][NextTake]_vars

\* a caller of the decoders and of the searches, in a space shared with another
\* client.  The decoders are given the records of the store with their layout as
\* it is, taken out, or replaced: by a layout of each kind and by another one, by
\* a number that is no layout, by a string and by a value without a kind; and the
\* same without their id.
LayoutValues ==
    <<into_prost_f64(LayoutCode["Basic"]), into_prost_f64(LayoutCode["Set"]),
      into_prost_f64(LayoutCode["ObjectType"]), into_prost_f64(LayoutCode["Relation"]),
      into_prost_f64(LayoutCode["Bookmark"]), into_prost_f64(7),
      into_prost_String(DueName), EmptyValue>>

DecodeInput(doc, v, with_id) ==
    Let(IF v = 0 THEN RemoveField(doc, "layout")
        ELSE Extend(doc, [layout |-> LayoutValues[v]]),
        LAMBDA input : IF with_id THEN input ELSE RemoveField(input, "id"))

\* O::try_from_prost of the record i of the store, with the layout v
Decode(t, O, i, v, with_id) ==
    /\ Begin(t)
    /\ \E input \in {DecodeInput(records[i], v, with_id)} :
          Step(t, [NewCall(t, "try_from_prost", [input |-> input, O |-> O])
                      EXCEPT !.res = try_from_prost(O, input)], FALSE)
    /\ UNCHANGED records

NextDecode ==
    \/ \E O \in {"Relation", "ObjectTypeUnresolved", "ObjectUnresolved"} :
       \E i \in 1..Len(records), v \in 0..Len(LayoutValues), with_id \in BOOLEAN :
          Decode("t1", O, i, v, with_id)
    \/ \E relation_spec \in SearchRelationSpecs, outcome \in AnswerOrNot :
          GetRelation("t1", relation_spec, outcome)
    \/ \E object_type_spec \in SearchObjectTypeSpecs, outcome \in AnswerOrNot :
          GetObjectType("t1", object_type_spec, outcome)
    \/ \E outcome \in AnswerOrNot : GetObjectTypeResolve("t1", outcome)
    \/ \E ty \in ObjectTypes(InitRecords), outcome \in AnswerOrNot :
          GetObject("t1", ObjectSpec(ty, ObjectName), outcome)

SpecDecode == InitSearch /\ [][NextDecode]_vars

(***************************************************************************)
(* AnytypeClient: authenticate, create_account and the event listener      *)
(***************************************************************************)
\* models::Account { id }
Account(id) == [id |-> id]

\* pb::event::message::Value: AccountShow { account } and the other values
AccountShow(account) == [kind |-> "AccountShow", account |-> account]

OtherValue == [kind |-> "ObjectDetailsSet", account |-> None]

\* pb::event::Message { value }
Message(value) == [value |-> value]

\* the events the backend sends on its own: an AccountShow of another account, an
\* AccountShow without an account, a value of another kind, and an event of three
\* messages, the first without a value
Events ==
    << <<Message(Some(AccountShow(Some(Account(2)))))>>,
       <<Message(Some(AccountShow(None)))>>,
       <<Message(Some(OtherValue))>>,
       <<Message(None), Message(Some(OtherValue)),
         Message(Some(AccountShow(Some(Account(2)))))>> >>

\* the event account_recover makes the backend send: the account of the mnemonic
RecoveredAccount == <<Message(Some(AccountShow(Some(Account(1)))))>>

\* the events the backend sends in one run
MaxEvents == 2

\* tokio::sync::mpsc::channel(64)
ChannelCapacity == 64

\* The session of one AnytypeClient: the store holds it alone.  subscribed and
\* stream are the backend's side of listen_session_events (the events sent on the
\* stream and not yet read), missed the events sent while no stream was open;
\* queue is the channel, emitter and receiver say which of its ends are alive;
\* seen has the messages the listener has handled, forwarded the values it has
\* sent into the channel, emitted counts the events of the run.
NoSession ==
    [subscribed |-> FALSE, stream |-> <<>>, missed |-> <<>>, seen |-> <<>>,
     queue |-> <<>>, forwarded |-> <<>>, emitter |-> FALSE, receiver |-> FALSE,
     emitted |-> 0]

\* the backend sends an event to the streams that are open: to the session's when
\* it listens, to none before
Broadcast(session, event) ==
    IF session.subscribed
    THEN [session EXCEPT !.stream = Append(@, event), !.emitted = @ + 1]
    ELSE [session EXCEPT !.missed = Append(@, event), !.emitted = @ + 1]

\* a faulty listener: every value is sent into the channel
event_listener_message_any(session, message) ==
    IF message.value.tag = "None" THEN Ok([session EXCEPT !.seen = Append(@, message)])
    ELSE IF session.receiver
    THEN Ok([session EXCEPT !.seen = Append(@, message),
                            !.queue = Append(@, message.value.val),
                            !.forwarded = Append(@, message.value.val)])
    ELSE Panic

\* the listener with one message of an event: a message without a value is passed
\* over, an AccountShow is sent into the channel, which panics when the receiver
\* is gone, any other value is logged and dropped
event_listener_message(session, message) ==
    IF message.value.tag = "None" THEN Ok([session EXCEPT !.seen = Append(@, message)])
    ELSE IF message.value.val.kind = "AccountShow"
    THEN IF session.receiver
         THEN Ok([session EXCEPT !.seen = Append(@, message),
                                 !.queue = Append(@, message.value.val),
                                 !.forwarded = Append(@, message.value.val)])
         ELSE Panic
    ELSE Ok([session EXCEPT !.seen = Append(@, message)])

\* Receiver::recv: the oldest value of the channel, None once the channel is empty
\* and its emitter is gone, and pending until then
recv(session) ==
    IF session.queue # <<>> THEN Some(Head(session.queue))
    ELSE IF session.emitter THEN Pending
    ELSE None

\* the codes of the error of each response, besides Null
ErrorCodes(rpc) ==
    CASE rpc \in {"wallet_recover", "wallet_create"} ->
            {"UnknownError", "BadInput", "FailedToCreateLocalRepo"}
      [] rpc = "wallet_create_session" ->
            {"UnknownError", "BadInput", "AppTokenNotFoundInTheCurrentAccount"}
      [] rpc = "account_recover" -> {"UnknownError", "BadInput", "NeedToRecoverWalletFirst"}
      [] rpc = "metrics_set_parameters" -> {"UnknownError", "BadInput"}
      [] rpc \in {"account_select", "account_create"} ->
            {"UnknownError", "BadInput", "AccountIsAlreadyRunning"}

ClientOutcomes(rpc) == {"ok", "transport"} \cup ErrorCodes(rpc)

\* what the client answers for a response that is no success: the status of the
\* code, and todo!() for the codes of account_select and account_create it has no
\* arm for
ClientError(outcome) ==
    CASE outcome \in {"transport", "UnknownError", "BadInput"} -> Err(RpcError(outcome))
      [] outcome = "FailedToCreateLocalRepo" ->
            Err(Status("internal", [what |-> "error.description"]))
      [] outcome \in {"NeedToRecoverWalletFirst", "AppTokenNotFoundInTheCurrentAccount"} ->
            Err(Status("failed_precondition", [what |-> "error.description"]))
      [] outcome = "AccountIsAlreadyRunning" -> Panic

QueueClosed ==
    Err(Status("internal",
               [what |-> "AnytypeClient internal event queue was unexpectedly closed"]))

NoAccount ==
    Err(Status("internal", [what |-> "anytype-heart did not respond with an account"]))

\* the task start_event_listener spawns
event_listener_task == "t2"

client_request(rpc, request) == [request |-> request, rpc |-> rpc]

\* the call returns res without another request
Finish(call, res) == [call EXCEPT !.pc = "idle", !.res = res, !.local = <<>>]

\* the listener is polled: it is spawned and has neither panicked nor been aborted
Running(listener) ==
    /\ listener.op = "event_listener"
    /\ listener.pc \in {"listen_session_events", "message", "for"}

\* the listener ends: its emitter and its stream are dropped with it
Ends(session) == [session EXCEPT !.subscribed = FALSE, !.emitter = FALSE]

InitClient ==
    /\ records = <<NoSession>>
    /\ task = [t \in Tasks |-> IdleTask]

\* authenticate begins: wallet_recover is sent
Authenticate(t) ==
    /\ Begin(t)
    /\ task[t].op = "none"
    /\ task' = [task EXCEPT ![t] = Goto(NewCall(t, "authenticate", <<>>),
                                        client_request("wallet_recover", <<>>),
                                        "wallet_recover", <<>>)]
    /\ UNCHANGED records

\* create_account begins: wallet_create is sent
CreateAccount(t) ==
    /\ Begin(t)
    /\ task[t].op = "none"
    /\ task' = [task EXCEPT ![t] = Goto(NewCall(t, "create_account", <<>>),
                                        client_request("wallet_create", <<>>),
                                        "wallet_create", <<>>)]
    /\ UNCHANGED records

\* a call that returns early drops the receiver of the channel and the handle of
\* the listener, which detaches the task
ReturnEarly(t, res) ==
    /\ task' = [task EXCEPT ![t] = Finish(task[t], res)]
    /\ records' = <<[records[1] EXCEPT !.receiver = FALSE]>>

\* wallet_recover or wallet_create is answered: create_wallet_session is sent
WalletAnswered(t, outcome) ==
    /\ task[t].pc \in {"wallet_recover", "wallet_create"}
    /\ outcome \in ClientOutcomes(task[t].pc)
    /\ IF outcome = "ok"
       THEN /\ task' = [task EXCEPT ![t] = Goto(task[t],
                                                client_request("wallet_create_session", <<>>),
                                                "wallet_create_session", <<>>)]
            /\ UNCHANGED records
       ELSE ReturnEarly(t, ClientError(outcome))

\* create_wallet_session is answered with the token: start_event_listener makes the
\* channel and spawns the listener, and the call sends its next request,
\* account_recover in authenticate, metrics_set_parameters in create_account
start_event_listener(t, outcome) ==
    /\ task[t].pc = "wallet_create_session"
    /\ outcome \in ClientOutcomes(task[t].pc)
    /\ IF outcome = "ok"
       THEN /\ records' = <<[records[1] EXCEPT !.emitter = TRUE, !.receiver = TRUE]>>
            /\ \E next \in {IF task[t].op = "authenticate" THEN "account_recover"
                            ELSE "metrics_set_parameters"} :
                  task' = [task EXCEPT
                              ![t] = Goto(task[t], client_request(next, <<>>), next, <<>>),
                              ![event_listener_task] =
                                  [IdleTask EXCEPT !.op = "event_listener",
                                                   !.pc = "listen_session_events"]]
       ELSE ReturnEarly(t, ClientError(outcome))

\* the listener's listen_session_events reaches the backend, which opens the
\* stream, or fails, and the unwrap panics
ListenSessionEvents(outcome) ==
    /\ task[event_listener_task].pc = "listen_session_events"
    /\ IF outcome = "ok"
       THEN /\ records' = <<[records[1] EXCEPT !.subscribed = TRUE]>>
            /\ task' = [task EXCEPT ![event_listener_task].pc = "message"]
       ELSE /\ records' = <<Ends(records[1])>>
            /\ task' = [task EXCEPT ![event_listener_task].pc = "panicked",
                                    ![event_listener_task].res = Panic]

\* the backend sends an event of its own on the stream of the session
BackendEvent(e) ==
    /\ records[1].subscribed
    /\ records[1].emitted < MaxEvents
    /\ records' = <<Broadcast(records[1], Events[e])>>
    /\ UNCHANGED task

\* account_recover is answered: the backend has sent the AccountShow of the
\* account, and the call waits for it
AccountRecoverAnswered(t, outcome) ==
    /\ task[t].pc = "account_recover"
    /\ outcome \in ClientOutcomes(task[t].pc)
    /\ IF outcome = "ok"
       THEN /\ records' = <<Broadcast(records[1], RecoveredAccount)>>
            /\ task' = [task EXCEPT ![t].pc = "wait_account_id_event"]
       ELSE ReturnEarly(t, ClientError(outcome))

\* stream.message() gives the next event
StreamMessage ==
    /\ task[event_listener_task].pc = "message"
    /\ records[1].stream # <<>>
    /\ records' = <<[records[1] EXCEPT !.stream = Tail(@)]>>
    /\ task' = [task EXCEPT ![event_listener_task].pc = "for",
                            ![event_listener_task].local = Head(records[1].stream)]

\* stream.message() gives Ok(None) or an error: the listener yields and asks again
StreamYield ==
    /\ task[event_listener_task].pc = "message"
    /\ UNCHANGED vars

\* the listener handles the next message of the event; to send into a full channel
\* it waits
ForMessage ==
    /\ task[event_listener_task].pc = "for"
    /\ Len(records[1].queue) < ChannelCapacity
    /\ \E handled \in {event_listener_message(records[1],
                                              Head(task[event_listener_task].local))} :
          IF handled.tag = "Panic"
          THEN /\ records' = <<Ends(records[1])>>
               /\ task' = [task EXCEPT ![event_listener_task].pc = "panicked",
                                       ![event_listener_task].res = Panic,
                                       ![event_listener_task].local = <<>>]
          ELSE /\ records' = <<handled.val>>
               /\ task' = [task EXCEPT
                              ![event_listener_task].pc =
                                  IF Len(task[event_listener_task].local) = 1
                                  THEN "message" ELSE "for",
                              ![event_listener_task].local = Tail(@)]

\* wait_account_id_event receives the next value of the channel: an AccountShow
\* without an account is passed over, one with an account ends the wait and
\* set_metrics sends its request; a closed channel ends authenticate
WaitAccountIdEvent(t) ==
    /\ task[t].pc = "wait_account_id_event"
    /\ \E event \in {recv(records[1])} :
          /\ event.tag # "Pending"
          /\ IF event.tag = "None" THEN ReturnEarly(t, QueueClosed)
             ELSE IF event.val.kind # "AccountShow"
             THEN /\ task' = [task EXCEPT ![t] = Finish(task[t], Panic)]
                  /\ records' = <<[records[1] EXCEPT !.queue = Tail(@), !.receiver = FALSE]>>
             ELSE /\ records' = <<[records[1] EXCEPT !.queue = Tail(@)]>>
                  /\ IF event.val.account.tag = "None" THEN UNCHANGED task
                     ELSE task' = [task EXCEPT
                                      ![t] = Goto(task[t],
                                                  client_request("metrics_set_parameters", <<>>),
                                                  "metrics_set_parameters",
                                                  [account_id |-> event.val.account.val.id])]

\* set_metrics is answered: authenticate sends account_select with the id it
\* waited for, create_account sends account_create
SetMetricsAnswered(t, outcome) ==
    /\ task[t].pc = "metrics_set_parameters"
    /\ outcome \in ClientOutcomes(task[t].pc)
    /\ IF outcome = "ok"
       THEN /\ task' = [task EXCEPT ![t] =
                          IF task[t].op = "authenticate"
                          THEN Goto(task[t],
                                    client_request("account_select",
                                                   [id |-> task[t].local.account_id]),
                                    "account_select", <<>>)
                          ELSE Goto(task[t], client_request("account_create", <<>>),
                                    "account_create", <<>>)]
            /\ UNCHANGED records
       ELSE ReturnEarly(t, ClientError(outcome))

\* account_select or account_create is answered, with the account or without one:
\* the call returns the AuthorizedAnytypeClient, which holds the account, the
\* receiver and the handle of the listener
AccountAnswered(t, outcome, with_account) ==
    /\ task[t].pc \in {"account_select", "account_create"}
    /\ outcome \in ClientOutcomes(task[t].pc)
    /\ IF outcome # "ok" THEN ReturnEarly(t, ClientError(outcome))
       ELSE IF ~with_account THEN ReturnEarly(t, NoAccount)
       ELSE /\ \E id \in {IF task[t].pc = "account_select"
                          THEN task[t].wire[Len(task[t].wire)].id ELSE 1} :
                  task' = [task EXCEPT ![t] = [Finish(task[t], Ok(Account(id)))
                                                  EXCEPT !.held = Account(id)]]
            /\ UNCHANGED records

\* the AuthorizedAnytypeClient is dropped: the listener is aborted, the receiver
\* goes, and the drop of ClientInner sends app_shutdown
DropClient(t) ==
    /\ Begin(t)
    /\ task[t].held # NoObject
    /\ records' = <<[Ends(records[1]) EXCEPT !.receiver = FALSE]>>
    /\ task' = [task EXCEPT
                   ![t] = [Sent(NewCall(t, "drop", <<>>), client_request("app_shutdown", <<>>))
                              EXCEPT !.held = NoObject],
                   ![event_listener_task] =
                       IF Running(task[event_listener_task])
                       THEN [task[event_listener_task] EXCEPT !.pc = "aborted", !.local = <<>>]
                       ELSE task[event_listener_task]]

NextClient ==
    \/ Authenticate("t1")
    \/ CreateAccount("t1")
    \/ \E outcome \in ClientOutcomes("wallet_recover") : WalletAnswered("t1", outcome)
    \/ \E outcome \in ClientOutcomes("wallet_create_session") :
          start_event_listener("t1", outcome)
    \/ \E outcome \in AnswerOrNot : ListenSessionEvents(outcome)
    \/ \E e \in 1..Len(Events) : BackendEvent(e)
    \/ \E outcome \in ClientOutcomes("account_recover") : AccountRecoverAnswered("t1", outcome)
    \/ StreamMessage
    \/ StreamYield
    \/ ForMessage
    \/ WaitAccountIdEvent("t1")
    \/ \E outcome \in ClientOutcomes("metrics_set_parameters") :
          SetMetricsAnswered("t1", outcome)
    \/ \E outcome \in ClientOutcomes("account_select"), with_account \in BOOLEAN :
          AccountAnswered("t1", outcome, with_account)
    \/ DropClient("t1")

SpecClient == InitClient /\ [][NextClient]_vars

(***************************************************************************)
(* Properties                                                              *)
(***************************************************************************)
\* the RPC of a call failed: the transport, or an error code of the response
Failed(res) ==
    res.tag = "Err" /\ res.err.code \in {"unavailable", "unknown", "invalid_argument"}

\* the call of task t that ended is op(arg) and sent exactly the RPCs rpcs
Ended(t, op, rpcs) ==
    task[t].op = op /\ task[t].pc = "idle" /\ task[t].sent = rpcs

\* C1: with no other writer active, a task whose obtain_relation(spec) found no
\* relation of the name and created one, and which calls obtain_relation(spec)
\* again, gets the same relation id from the search alone: the second call sends one
\* search, no create, and leaves the store as it is.
C1_ObtainRelationTwice ==
    [][\A t \in Tasks :
          (/\ Ended(t, "obtain_relation", <<"object_search", "object_create_relation">>)
           /\ task[t].res.tag = "Ok"
           /\ task[t].alone
           /\ task'[t].op = "obtain_relation"
           /\ task'[t].arg = task[t].arg
           /\ Len(task'[t].sent) = 1
           /\ ~Failed(task'[t].res))
          => /\ task'[t].pc = "idle"
             /\ task'[t].sent = <<"object_search">>
             /\ task'[t].res.tag = "Ok"
             /\ task'[t].res.val.id = task[t].res.val.id
             /\ records' = records]_vars

\* the second obtain_relation of the only active task has returned the relation
\* that its first one created
C1_Witness ==
    /\ task["t2"].op = "none"
    /\ Ended("t1", "obtain_relation", <<"object_search">>)
    /\ task["t1"].res.tag = "Ok"
    /\ task["t1"].res.val.id > Len(InitRecords)
    /\ Len(records) = Len(InitRecords) + 1

GetOps == {"get_relation", "get_object_type", "get_object"}
ObtainOps == {"obtain_relation", "obtain_object_type", "obtain_object"}
CreateOps == {"create_relation", "create_object_type", "create_object"}
CreateRpcs == {"object_create_relation", "object_create_object_type", "object_create"}

\* the kind of entity an operation is about, and the search key of its argument
KindOf(op) ==
    CASE op \in {"get_relation", "obtain_relation"} -> "Relation"
      [] op \in {"get_object_type", "obtain_object_type"} -> "ObjectTypeUnresolved"
      [] op \in {"get_object", "obtain_object"} -> "ObjectUnresolved"

SearchKey(op, arg) ==
    CASE op \in {"get_relation", "obtain_relation"} -> get_relation_filters(arg)
      [] op \in {"get_object_type", "obtain_object_type"} -> get_object_type_filters(arg)
      [] op \in {"get_object", "obtain_object"} -> get_object_filters(arg)

\* the number of visible entities of the store that match the search key of op(arg)
Matching(store, op, arg) == Len(search_objects(KindOf(op), store, SearchKey(op, arg)).val)

\* C2: every step of a get_relation, get_object_type or get_object call leaves the
\* store as it is and sends no create RPC, whatever the call returns; a step that
\* changes the store is a step of a create or obtain call, and of an obtain call
\* only when nothing visible matches what its get searched for.
C2_GetNeverCreates ==
    [][\A t \in Tasks :
          /\ task'[t].op \in GetOps =>
                /\ records' = records
                /\ \A i \in 1..Len(task'[t].sent) : task'[t].sent[i] \notin CreateRpcs
          /\ (records' # records /\ task'[t].op # "none") =>
                /\ task'[t].op \in ObtainOps \cup CreateOps
                /\ task'[t].op \in ObtainOps =>
                      Matching(records, task'[t].op, task'[t].arg) = 0]_vars

\* a get_object has answered None in a store that an earlier call has grown
C2_Witness ==
    /\ Ended("t1", "get_object", <<"object_search">>)
    /\ task["t1"].res.tag = "Ok"
    /\ task["t1"].res.val.tag = "None"
    /\ Len(records) > Len(InitRecords)

\* the error of an ambiguous search
MoreThanOne(res) ==
    /\ res.tag = "Err"
    /\ res.err.code = "failed_precondition"
    /\ res.err.message.what \in {"More than one relation with same name",
                                 "More than one object type with same name",
                                 "More than one object with same name"}

\* C3: a get or obtain call whose search is answered while more than one visible
\* entity of its kind matches its search key ends at once with the failed
\* precondition "More than one ... with same name": it returns none of the
\* candidates and the store stays as it is.
C3_AmbiguousFails ==
    [][\A t \in Tasks :
          (/\ task'[t].op \in GetOps \cup ObtainOps
           /\ Len(task'[t].sent) = 1
           /\ ~Failed(task'[t].res)
           /\ Matching(records, task'[t].op, task'[t].arg) > 1)
          => /\ task'[t].pc = "idle"
             /\ MoreThanOne(task'[t].res)
             /\ records' = records]_vars

\* an obtain_object_type has failed over two object types of the same name
C3_Witness ==
    /\ Ended("t1", "obtain_object_type", <<"object_search">>)
    /\ MoreThanOne(task["t1"].res)
    /\ Matching(records, "obtain_object_type", task["t1"].arg) > 1

\* the only visible relation that has the name of relation_spec
TheRelation(store, relation_spec) ==
    search_objects("Relation", store, get_relation_filters(relation_spec)).val[1]

FormatMismatch(res, existing, requested) ==
    /\ res.tag = "Err"
    /\ res.err.code = "failed_precondition"
    /\ res.err.message.what =
          "Relation exists but has a different format from requested format"
    /\ res.err.message.existing = existing
    /\ res.err.message.requested = requested

\* C4: a get_relation or obtain_relation whose search is answered while exactly one
\* visible relation has the requested name, with a format that is not equal to the
\* requested one, ends at once with the failed precondition "Relation exists but
\* has a different format" that carries the existing and the requested format; it
\* has sent the search alone, no create, and the store stays as it is.  Formats are
\* compared with equality, so Object{} and Object{T} never satisfy each other.
C4_FormatMismatchFails ==
    [][\A t \in Tasks :
          (/\ task'[t].op \in {"get_relation", "obtain_relation"}
           /\ Len(task'[t].sent) = 1
           /\ ~Failed(task'[t].res)
           /\ Matching(records, task'[t].op, task'[t].arg) = 1
           /\ TheRelation(records, task'[t].arg).format # task'[t].arg.format)
          => /\ task'[t].pc = "idle"
             /\ task'[t].sent = <<"object_search">>
             /\ FormatMismatch(task'[t].res, TheRelation(records, task'[t].arg).format,
                               task'[t].arg.format)
             /\ records' = records]_vars

\* an obtain_relation for Tag as Object{Pg} has failed over the only Tag, which an
\* earlier call created with the wildcard format Object{}
C4_Witness ==
    /\ Ended("t1", "obtain_relation", <<"object_search">>)
    /\ task["t1"].arg = TagPage
    /\ Matching(records, "obtain_relation", TagPage) = 1
    /\ FormatMismatch(task["t1"].res, ObjectFormat({}), ObjectFormat({2}))

\* some value of the description is not accepted by the format of its relation
HasInvalidPair(object) ==
    \E relation \in DOMAIN object.relations :
        ~is_superset(relation.format, format(object.relations[relation]))

Incompatible(res) ==
    /\ res.tag = "Err"
    /\ res.err.code = "failed_precondition"
    /\ res.err.message.what = "Expected format doesn't match received format"

\* C5: a create_object whose description has at least one value of a format that
\* its relation does not accept ends with the failed precondition "Expected format
\* doesn't match received format" without having sent any RPC, and the store
\* stays as it is: no object is created.
C5_CreateObjectValidatesFirst ==
    [][\A t \in Tasks :
          (/\ task'[t].op = "create_object"
           /\ HasInvalidPair(task'[t].arg))
          => /\ task'[t].pc = "idle"
             /\ task'[t].sent = <<>>
             /\ Incompatible(task'[t].res)
             /\ records' = records]_vars

\* a create_object with a valid Due and a Ref to an object of a type that Ref does
\* not accept has failed, in a store where such an object exists
C5_Witness ==
    /\ Ended("t1", "create_object", <<>>)
    /\ Incompatible(task["t1"].res)
    /\ Due \in DOMAIN task["t1"].arg.relations
    /\ Ref \in DOMAIN task["t1"].arg.relations
    /\ is_superset(Due.format, format(task["t1"].arg.relations[Due]))
    /\ task["t1"].res.err.message.expected = Ref.format
    /\ task["t1"].res.err.message.received = ObjectFormat({4})

\* C6: an Object::set whose value has a format that the relation does not accept
\* returns a failed precondition error, sends no set-relation-value request, and
\* leaves the store, and so the value stored for the relation, as it is.
C6_SetRevalidates ==
    [][\A t \in Tasks :
          (/\ task[t].pc = "idle"
           /\ task'[t].op = "set"
           /\ ~is_superset(task'[t].arg.key.format, format(task'[t].arg.value)))
          => /\ task'[t].pc = "idle"
             /\ task'[t].res.tag = "Err"
             /\ task'[t].res.err.code = "failed_precondition"
             /\ \A i \in 1..Len(task'[t].sent) : task'[t].sent[i] # "set_relation_value"
             /\ records' = records]_vars

\* validate(key, value) is as C7 says
Validated(key, value) ==
    \A result \in {validate(key, value)} :
        IF is_superset(key.format, format(value))
        THEN /\ result.tag = "Ok"
             /\ result.val.key = key.relation_key
             /\ result.val.value.variant = value.variant
             /\ result.val.value.value = value.value
        ELSE /\ result.tag = "Err"
             /\ result.err.expected = key.format
             /\ result.err.received = format(value)

\* C7: for every relation a caller holds and every value it can write, validate
\* succeeds exactly when the relation's format is_superset of the value's format;
\* the detail of a success has the relation's key and the value as it was given,
\* the error of a failure has the relation's format as expected and the value's
\* format as received.  A set that goes on to set_relation carries that detail, and
\* a set that the validation ended carries that error.
C7_Validate ==
    /\ \A key \in {Due, Ref} :
       \A values \in {Values(Objects(records))} :
       \A v \in 1..Len(values) : Validated(key, values[v])
    /\ \A t \in Tasks :
          task[t].op = "set" =>
             /\ task[t].pc = "set_relation" =>
                   /\ is_superset(task[t].arg.key.format, format(task[t].arg.value))
                   /\ task[t].local.detail.key = task[t].arg.key.relation_key
                   /\ task[t].local.detail.value.variant = task[t].arg.value.variant
                   /\ task[t].local.detail.value.value = task[t].arg.value.value
             /\ (task[t].pc = "idle" /\ Incompatible(task[t].res)) =>
                   /\ ~is_superset(task[t].arg.key.format, format(task[t].arg.value))
                   /\ task[t].res.err.message.expected = task[t].arg.key.format
                   /\ task[t].res.err.message.received = format(task[t].arg.value)

\* a set of Ref to an object of the type Pg has passed the validation, and the
\* detail has the key of Ref
C7_Witness ==
    /\ task["t1"].op = "set"
    /\ task["t1"].pc = "set_relation"
    /\ task["t1"].arg.key = Ref
    /\ task["t1"].arg.value.variant = "Object"
    /\ task["t1"].local.detail.key = Ref.relation_key
    /\ task["t1"].local.detail.key # Ref.name

\* the (name, format) pairs of the relations of the store that the type recommends
ResolvedSpecs(store, object_type) ==
    {as_spec(relation) :
        relation \in {r \in Relations(store) : r.id \in object_type.recommended_relations}}

DifferentRelations(res) ==
    /\ res.tag = "Err"
    /\ res.err.code = "failed_precondition"
    /\ res.err.message.what =
          "ObjectType exists but has different recommended relations from requested recommended relations"

\* C8: a get_object_type or obtain_object_type whose search is answered while
\* exactly one visible object type matches the name goes on to resolve that type's
\* recommended relations; when the lookup is answered the call ends, with the type
\* if the (name, format) pairs of the resolved relations are equal to the requested
\* set, and with the failed precondition "different recommended relations" if they
\* are not, a strict subset and a strict superset included.  The call has sent the
\* two searches alone and the store stays as it is.
C8_ExactRecommendedRelations ==
    [][\A t \in Tasks :
          /\ (/\ task[t].pc = "idle"
              /\ task'[t].op \in {"get_object_type", "obtain_object_type"}
              /\ Len(task'[t].sent) = 1
              /\ ~Failed(task'[t].res)
              /\ Matching(records, task'[t].op, task'[t].arg) = 1)
             => /\ task'[t].pc = "slow_resolve"
                /\ task'[t].local.id =
                      search_objects("ObjectTypeUnresolved", records,
                                     get_object_type_filters(task'[t].arg)).val[1].id
                /\ records' = records
          /\ (/\ task[t].pc = "slow_resolve"
              /\ task'[t].pc # "slow_resolve"
              /\ ~Failed(task'[t].res))
             => /\ task'[t].pc = "idle"
                /\ task'[t].sent = <<"object_search", "object_search">>
                /\ records' = records
                /\ IF ResolvedSpecs(records, task[t].local) = task[t].arg.recommended_relations
                   THEN /\ task'[t].res.tag = "Ok"
                        /\ task[t].op = "get_object_type" =>
                              /\ task'[t].res.val.tag = "Some"
                              /\ task'[t].res.val.val.id = task[t].local.id
                        /\ task[t].op = "obtain_object_type" =>
                              task'[t].res.val.id = task[t].local.id
                   ELSE DifferentRelations(task'[t].res)]_vars

\* an obtain_object_type for Pg with Due and Tag, a strict superset of what Pg
\* recommends, has failed and the store is the one the space started with
C8_Witness ==
    /\ Ended("t1", "obtain_object_type", <<"object_search", "object_search">>)
    /\ DifferentRelations(task["t1"].res)
    /\ task["t1"].arg.name = PageName
    /\ task["t1"].arg.recommended_relations = {DueDate, TagAny}
    /\ records = InitRecords

\* C9: an obtain_object_type(spec) that found no object type of the name and
\* returns a type: the (name, format) pairs of the relations of the type are
\* spec.recommended_relations; right afterwards get_relation(r) answers Some for
\* every r of spec.recommended_relations, and get_object_type(spec) answers Some
\* with the id of the type returned.
C9_ObtainObjectTypeNew ==
    [][\A t \in Tasks :
          (/\ task[t].op = "obtain_object_type"
           /\ task[t].pc = "create_object_type"
           /\ task'[t].pc = "idle"
           /\ task'[t].res.tag = "Ok")
          => /\ {as_spec(relation) : relation \in task'[t].res.val.recommended_relations}
                   = task[t].arg.recommended_relations
             /\ \A r \in task[t].arg.recommended_relations :
                \A got \in {get_relation(records', r)} :
                   got.tag = "Ok" /\ got.val.tag = "Some"
             /\ \A got \in {get_object_type(records', task[t].arg)} :
                   /\ got.tag = "Ok"
                   /\ got.val.tag = "Some"
                   /\ got.val.val.id = task'[t].res.val.id]_vars

\* task u takes no part in the step
Unmoved(u) == [task'[u] EXCEPT !.alone = TRUE] = [task[u] EXCEPT !.alone = TRUE]

\* the number of visible relations named Tag
Tags(store) == Matching(store, "get_relation", TagAny)

\* C10: the create of an obtain_relation is answered whatever the store has become
\* since its search: an accepted create of a second Tag leaves two visible Tags.
\* The Tags never get fewer, and from then on every get_relation and
\* obtain_relation for Tag whose search is answered ends with the failed
\* precondition "More than one relation with same name", creating nothing.
C10_RaceLeavesAmbiguity ==
    [][\A before \in {Tags(records)} :
          /\ records' # records => Tags(records') >= before
          /\ \A t \in Tasks :
                /\ (/\ task[t].op = "obtain_relation"
                    /\ task[t].pc = "create_relation"
                    /\ task'[t].pc = "idle"
                    /\ task'[t].res.tag = "Ok")
                   => Tags(records') = before + 1
                /\ (/\ before >= 2
                    /\ task[t].pc = "idle"
                    /\ \A u \in Tasks \ {t} : Unmoved(u)
                    /\ task'[t].sent = <<"object_search">>
                    /\ ~Failed(task'[t].res))
                   => /\ task'[t].pc = "idle"
                      /\ MoreThanOne(task'[t].res)
                      /\ records' = records]_vars

\* both tasks' obtain_relation searched, found no Tag, and created one: two Tags
C10_Witness ==
    /\ \A t \in Tasks :
          /\ Ended(t, "obtain_relation", <<"object_search", "object_create_relation">>)
          /\ task[t].res.tag = "Ok"
    /\ task["t1"].res.val.id # task["t2"].res.val.id
    /\ Len(records) = Len(InitRecords) + 2
    /\ Tags(records) = 2

\* C11: in every step of a caller that uses get_*, create_*, obtain_* and
\* Object::set, every relation of the store is still in the store afterwards, under
\* the same id and with the same format; and a get_relation or obtain_relation
\* whose search is answered while the only relation of the requested name has another
\* format than the requested one ends in an error, with the store as it was.
C11_FormatsNeverChange ==
    [][   /\ records' # records =>
                \E before \in {Relations(records)} : \E after \in {Relations(records')} :
                   \A relation \in before :
                      \E other \in after :
                         other.id = relation.id /\ other.format = relation.format
          /\ \A t \in Tasks :
                (/\ task'[t].op \in {"get_relation", "obtain_relation"}
                 /\ Len(task'[t].sent) = 1
                 /\ ~Failed(task'[t].res)
                 /\ Matching(records, task'[t].op, task'[t].arg) = 1
                 /\ TheRelation(records, task'[t].arg).format # task'[t].arg.format)
                => /\ task'[t].pc = "idle"
                   /\ task'[t].res.tag = "Err"
                   /\ records' = records]_vars

\* the caller asked for Due as a Text after a set on its object reached the
\* backend and after it created a relation: the call failed, and Due is a Date
C11_Witness ==
    /\ Ended("t1", "obtain_relation", <<"object_search">>)
    /\ task["t1"].arg = DueText
    /\ task["t1"].res.tag = "Err"
    /\ \E relation \in Relations(records) :
          relation.id = Due.id /\ relation.format = Scalar("Date")
    /\ \E i \in 1..Len(records) : Due.relation_key[1] \in DOMAIN records[i]
    /\ Cardinality(Relations(records)) > Cardinality(Relations(InitRecords))

\* C12: when the create of an obtain_relation(spec) is accepted while no visible
\* relation has the name of spec, the store gains one record, which is the only
\* visible relation of that name, and the call returns it: its id is the new
\* record's, its name and format are those of spec.  When the caller's next call is
\* get_relation(spec) and its search is answered, it returns Some relation with the
\* same id, name and format.
C12_ObtainRelationCreates ==
    [][\A t \in Tasks :
          /\ (/\ task[t].op = "obtain_relation"
              /\ task[t].pc = "create_relation"
              /\ Matching(records, "obtain_relation", task[t].arg) = 0
              /\ task'[t].pc = "idle"
              /\ ~Failed(task'[t].res))
             => /\ task'[t].sent = <<"object_search", "object_create_relation">>
                /\ Len(records') = Len(records) + 1
                /\ SubSeq(records', 1, Len(records)) = records
                /\ Matching(records', "obtain_relation", task[t].arg) = 1
                /\ task'[t].res.tag = "Ok"
                /\ task'[t].res.val.id = Len(records')
                /\ task'[t].res.val = TheRelation(records', task[t].arg)
                /\ as_spec(task'[t].res.val) = task[t].arg
          /\ (/\ Ended(t, "obtain_relation", <<"object_search", "object_create_relation">>)
              /\ task[t].res.tag = "Ok"
              /\ task'[t].op = "get_relation"
              /\ task'[t].arg = task[t].arg
              /\ ~Failed(task'[t].res))
             => /\ task'[t].pc = "idle"
                /\ task'[t].sent = <<"object_search">>
                /\ task'[t].res.tag = "Ok"
                /\ task'[t].res.val.tag = "Some"
                /\ task'[t].res.val.val.id = task[t].res.val.id
                /\ as_spec(task'[t].res.val.val) = task[t].arg
                /\ records' = records]_vars

\* a get_relation for Tag as Object{Pg} has returned the one relation Tag of the
\* store, which is the one record the store gained
C12_Witness ==
    /\ Ended("t1", "get_relation", <<"object_search">>)
    /\ task["t1"].arg = TagPage
    /\ Len(records) = Len(InitRecords) + 1
    /\ Matching(records, "get_relation", TagPage) = 1
    /\ task["t1"].res = Ok(Some(TheRelation(records, TagPage)))
    /\ task["t1"].res.val.val.id = Len(InitRecords) + 1
    /\ task["t1"].res.val.val.format = ObjectFormat({2})

\* what get_object_type or get_object answers for the argument of the obtain
\* operation op, against a store that answers
GetFor(store, op, arg) ==
    IF op = "obtain_object_type" THEN get_object_type(store, arg) ELSE get_object(store, arg)

\* the entity a call returned: a get returns an Option, the others the entity
Returned(call) ==
    IF call.op \in GetOps THEN call.res.val.val ELSE call.res.val

HasReturned(call) ==
    /\ call.pc = "idle"
    /\ call.res.tag = "Ok"
    /\ call.op \in GetOps => call.res.val.tag = "Some"

\* C13: one caller, no other writer.  (a) A step that ends an obtain_object_type
\* or obtain_object whose RPCs were answered, in a store where the get with the
\* same spec finds an entity, returns that entity; the call has sent searches alone
\* and the store is as it was.  (b) An obtain_object that follows at once on a
\* get_object, obtain_object or create_object which returned an object of the same
\* name and type returns the same id when the get finds one object.  (c) An
\* obtain_object_type that follows at once on a get_object_type or
\* obtain_object_type which returned a type for the same spec finds the type of
\* the same id, and the type it returns after the lookup has that id.
C13_ObtainReturnsExisting ==
    [][\A t \in Tasks :
          /\ (/\ task'[t].op \in {"obtain_object_type", "obtain_object"}
              /\ task'[t].pc = "idle"
              /\ task'[t] # task[t]
              /\ ~Failed(task'[t].res))
             => \A got \in {GetFor(records, task'[t].op, task'[t].arg)} :
                   (got.tag = "Ok" /\ got.val.tag = "Some")
                   => /\ task'[t].res = Ok(got.val.val)
                      /\ \A i \in 1..Len(task'[t].sent) : task'[t].sent[i] = "object_search"
                      /\ records' = records
          /\ (/\ HasReturned(task[t])
              /\ task[t].op \in {"get_object", "obtain_object", "create_object"}
              /\ task'[t].op = "obtain_object"
              /\ task'[t].arg.name = task[t].arg.name
              /\ task'[t].arg.ty = task[t].arg.ty
              /\ Len(task'[t].sent) = 1
              /\ ~Failed(task'[t].res)
              /\ Matching(records, "obtain_object", task'[t].arg) = 1)
             => /\ task'[t].pc = "idle"
                /\ task'[t].res.tag = "Ok"
                /\ task'[t].res.val.id = Returned(task[t]).id
                /\ records' = records
          /\ (/\ HasReturned(task[t])
              /\ task[t].op \in {"get_object_type", "obtain_object_type"}
              /\ task'[t].op = "obtain_object_type"
              /\ task'[t].arg = task[t].arg
              /\ Len(task'[t].sent) = 1
              /\ ~Failed(task'[t].res))
             => /\ task'[t].pc = "slow_resolve"
                /\ task'[t].local.id = Returned(task[t]).id
                /\ records' = records
          /\ (/\ task[t].op = "obtain_object_type"
              /\ task[t].pc = "slow_resolve"
              /\ task'[t].res.tag = "Ok")
             => /\ task'[t].res.val.id = task[t].local.id
                /\ records' = records]_vars

\* an obtain_object has returned, after one search, the only object of its name
\* and type, and an obtain_object_type has done so for its type in another state
C13_Witness ==
    /\ Ended("t1", "obtain_object", <<"object_search">>)
    /\ task["t1"].res.tag = "Ok"
    /\ task["t1"].res.val.id > Len(InitRecords)
    /\ Matching(records, "obtain_object", task["t1"].arg) = 1

\* an obtain_object_type for Bk has returned, after the search and the lookup, the
\* type Bk of the store
C13_WitnessType ==
    /\ Ended("t1", "obtain_object_type", <<"object_search", "object_search">>)
    /\ task["t1"].res.tag = "Ok"
    /\ task["t1"].res.val.id > Len(InitRecords)
    /\ task["t1"].arg.name = BookName

\* the call of t1 that ended is is_superset(self, other)
IsSupersetOf(self, other) ==
    /\ task["t1"].op = "is_superset"
    /\ task["t1"].arg = <<self, other>>

IsScalar(relation_format) == relation_format.format # "Object"

\* C14, as the spec states it: is_superset(a, a) is true; of two scalar formats it is
\* true only when they are equal; is_superset(Object{}, Object{any}) is true; and
\* is_superset(Object{T}, Object{T + U}) is false when U adds a type to T.
C14_SupersetLaw ==
    \A self \in Formats, other \in Formats :
        IsSupersetOf(self, other)
        => /\ self = other => task["t1"].res
           /\ (IsScalar(self) /\ IsScalar(other) /\ task["t1"].res) => self = other
           /\ (~IsScalar(self) /\ ~IsScalar(other) /\ self.types = {}) => task["t1"].res
           /\ (~IsScalar(self) /\ ~IsScalar(other) /\ self.types \subseteq other.types
               /\ self.types # other.types) => ~task["t1"].res

\* C14, amended: the last law holds of a nonempty T; with the empty T the format
\* is the wildcard of the law before it.
C14_SupersetLawOfNonEmpty ==
    \A self \in Formats, other \in Formats :
        IsSupersetOf(self, other)
        => /\ self = other => task["t1"].res
           /\ (IsScalar(self) /\ IsScalar(other) /\ task["t1"].res) => self = other
           /\ (~IsScalar(self) /\ ~IsScalar(other) /\ self.types = {}) => task["t1"].res
           /\ (~IsScalar(self) /\ ~IsScalar(other) /\ self.types # {}
               /\ self.types \subseteq other.types /\ self.types # other.types)
              => ~task["t1"].res

\* is_superset(Object{Pg}, Object{Pg, Nt}) has answered false
C14_Witness ==
    /\ IsSupersetOf(ObjectFormat({2}), ObjectFormat({2, 4}))
    /\ task["t1"].res = FALSE

\* the call of t1 that ended is validate
Validating == task["t1"].op = "validate"

Wildcard == ObjectFormat({})

\* C15, as the spec states it: a value validated against a relation of the value's
\* inferred format is accepted, and a value validated against a relation of format F
\* is rejected when F and the inferred format are unequal and neither is the
\* wildcard Object{}.
C15_ValidatorRoundTrip ==
    Validating
    => \A expected \in {task["t1"].arg.key.format} :
       \A received \in {format(task["t1"].arg.value)} :
          /\ expected = received => task["t1"].res.tag = "Ok"
          /\ (expected # received /\ expected # Wildcard /\ received # Wildcard)
             => task["t1"].res.tag = "Err"

\* C15, amended: a value is rejected when F and the inferred format are unequal and
\* neither is the wildcard, unless both are Object formats and the types of F
\* include the types of the inferred format.
C15_ValidatorRoundTripOfSupersets ==
    Validating
    => \A expected \in {task["t1"].arg.key.format} :
       \A received \in {format(task["t1"].arg.value)} :
          /\ expected = received => task["t1"].res.tag = "Ok"
          /\ (/\ expected # received /\ expected # Wildcard /\ received # Wildcard
              /\ ~(/\ ~IsScalar(expected) /\ ~IsScalar(received)
                    /\ received.types \subseteq expected.types))
             => task["t1"].res.tag = "Err"

\* a Text was validated against a Url relation and rejected
C15_Witness ==
    /\ Validating
    /\ task["t1"].arg.key.format = Scalar("Url")
    /\ task["t1"].arg.value.variant = "Text"
    /\ task["t1"].res = Err(IncompatibleRelationValue(Scalar("Url"), Scalar("Text")))

\* the types of the objects of a list
TypesOf(objects) == {objects[i].ty : i \in 1..Len(objects)}

\* C16: a list of objects infers the Object format of the set of its objects' type
\* ids, and validating it against a relation whose allowed types are not empty is
\* rejected when an object of the list has a type that is not allowed, whatever
\* the types of the other objects are; the error has the allowed and the inferred
\* format.
C16_ObjectListTypes ==
    (Validating /\ task["t1"].arg.value.variant = "Object")
    => \A objects \in {task["t1"].arg.value.value} :
       \A expected \in {task["t1"].arg.key.format} :
          /\ format(task["t1"].arg.value) = ObjectFormat(TypesOf(objects))
          /\ (/\ ~IsScalar(expected)
              /\ expected.types # {}
              /\ \E i \in 1..Len(objects) : objects[i].ty \notin expected.types)
             => task["t1"].res =
                   Err(IncompatibleRelationValue(expected, ObjectFormat(TypesOf(objects))))

\* a list of an object of type Pg and one of type Nt was validated against a
\* relation that allows Pg alone, and rejected
C16_Witness ==
    /\ Validating
    /\ task["t1"].arg.key.format = ObjectFormat({2})
    /\ task["t1"].arg.value.variant = "Object"
    /\ TypesOf(task["t1"].arg.value.value) = {2, 4}
    /\ task["t1"].arg.value.value[1].ty = 2
    /\ task["t1"].res.tag = "Err"

\* the call of task t that ended is a create_object that returned an object with
\* the value of the relation key in its description
CreatedWith(t, key) ==
    /\ Ended(t, "create_object", <<"object_create">>)
    /\ task[t].res.tag = "Ok"
    /\ key \in DOMAIN task[t].arg.relations

WholeSeconds(value) == value.variant = "Date" => value.value.nanos = 0

\* C17: a caller created an object with a value of Rel whose variant is Text,
\* Number, Checkbox, Url, Email, Phone or Date (a Date of whole seconds), Rel having
\* the format of that variant, and then reads Rel with Object::get on the object
\* returned: the read sends nothing and returns Some value of the same variant,
\* the one of Rel's format, equal to the value written.
C17_ScalarRoundTrip ==
    [][\A t \in Tasks :
          \A key \in {task'[t].arg} :
             (/\ task'[t].op = "get"
              /\ CreatedWith(t, key)
              /\ task[t].arg.relations[key].variant # "Object"
              /\ WholeSeconds(task[t].arg.relations[key]))
             => /\ task'[t].pc = "idle"
                /\ task'[t].sent = <<>>
                /\ task'[t].res = Some(task[t].arg.relations[key])
                /\ task'[t].res.val.variant = key.format.format]_vars

\* a Url written at the creation of an object was read as a Url from the object
C17_Witness ==
    /\ Ended("t1", "get", <<>>)
    /\ task["t1"].arg.format = Scalar("Url")
    /\ task["t1"].held.id = Len(records)
    /\ task["t1"].res = Some(RelationValue("Url", <<"x">>))

\* the ids of the objects of a list
IdsOf(objects) == {objects[i].id : i \in 1..Len(objects)}

\* C18: a caller created an object with a list of visible objects of an allowed
\* type as the value of the Object relation Rel, and then reads Rel with
\* Object::get on the object returned: the read sends the lookup of the objects,
\* and when the lookup is answered it returns Some Object value whose objects have,
\* as a set, the ids of the objects written (a lookup that is not answered is a
\* panic).
C18_ObjectRoundTrip ==
    [][\A t \in Tasks :
          \A key \in {task'[t].arg} :
             (/\ task'[t].op = "get"
              /\ CreatedWith(t, key)
              /\ task[t].arg.relations[key].variant = "Object")
             => \A answered \in {Object_get(task'[t].held, key, records, "ok")} :
                   /\ task'[t].pc = "idle"
                   /\ task'[t].sent = <<"object_search">>
                   /\ answered.tag = "Some"
                   /\ answered.val.variant = "Object"
                   /\ IdsOf(answered.val.value) = IdsOf(task[t].arg.relations[key].value)
                   /\ task'[t].res.tag # "Panic" => task'[t].res = answered]_vars

\* the list of the second and the first object of the space, written in that
\* order at the creation of an object, was read from the object as the two objects
C18_Witness ==
    /\ Ended("t1", "get", <<"object_search">>)
    /\ task["t1"].arg.format = ObjectFormat({1})
    /\ task["t1"].held.id = Len(records)
    /\ task["t1"].held.relations[task["t1"].arg.relation_key[1]] =
          into_prost_Vec(<<into_prost_ObjectId(4), into_prost_ObjectId(3)>>)
    /\ task["t1"].res.tag = "Some"
    /\ IdsOf(task["t1"].res.val.value) = {3, 4}

\* the object of the record id of the store, as a search decodes it now
BackendObject(store, id) == try_from_prost("ObjectUnresolved", store[id]).val

\* the value that the relation key holds on the object id in the store
ValueHeld(store, id, key) == Object_get(BackendObject(store, id), key, store, "ok")

\* C19: a set whose set_relation succeeds returns the value that the relation held
\* on the object, in the store, before this write, or None when it held none;
\* this is so for every set of a sequence of sets on the object a caller holds.
C19_SetReturnsPrevious ==
    [][\A t \in Tasks :
          (/\ task[t].op = "set"
           /\ task[t].pc = "set_relation"
           /\ task'[t].res.tag = "Ok")
          => task'[t].res.val = ValueHeld(records, task[t].held.id, task[t].arg.key)]_vars

\* a value read is the value written: the same variant and payload, and for a
\* list of objects the same ids
SameValue(read, written) ==
    IF written.variant = "Object"
    THEN read.variant = "Object" /\ IdsOf(read.value) = IdsOf(written.value)
    ELSE read = written

\* C20: an Object::get of a relation that follows at once on a successful
\* Object::set(relation, v) of the same caller, on the same object, returns v (a
\* lookup of objects that is not answered aside).
C20_GetAfterSet ==
    [][\A t \in Tasks :
          (/\ task[t].op = "set"
           /\ task[t].pc = "idle"
           /\ task[t].res.tag = "Ok"
           /\ task'[t].op = "get"
           /\ task'[t].arg = task[t].arg.key
           /\ task'[t].res.tag # "Panic")
          => /\ task'[t].res.tag = "Some"
             /\ SameValue(task'[t].res.val, task[t].arg.value)]_vars

\* the records the backend answers the search of op(arg) with, and those of them
\* that are not hidden: a record is hidden when its isHidden field is true
Found(store, op, arg) ==
    object_search(store, search_filters(KindOf(op), SearchKey(op, arg)))

IsHidden(doc) ==
    "isHidden" \in DOMAIN doc /\ ValueEq(doc["isHidden"], into_prost_bool(TRUE))

NotHidden(found) == SelectSeq(found, LAMBDA doc : ~IsHidden(doc))

IdOf(doc) == try_from_prost_ObjectId(doc["id"]).val

Decodes(op, doc) == try_from_prost(KindOf(op), RemoveField(doc, "isHidden")).tag = "Ok"

\* an obtain call goes on to its create
GoesOnToCreate(call) ==
    /\ call.op \in ObtainOps
    /\ call.pc \in {"create_relation", "obtain_relations", "create_object_type", "create_object"}

\* C21: hidden records are absent from every search.  When the search of a get or
\* obtain call is answered: (a) if every record that matches the filters is hidden
\* (or none matches), a get returns None and an obtain goes on to create; (b) if
\* exactly one matching record is not hidden, and it decodes, the call does not fail
\* over ambiguity however many hidden records match, and the entity it returns or
\* goes on with is that record, be its isHidden false or missing.  (c) No get or
\* obtain call ever returns an entity whose record is hidden.
C21_HiddenIsAbsent ==
    [][\A t \in Tasks :
          /\ (/\ task'[t].op \in GetOps \cup ObtainOps
              /\ Len(task'[t].sent) = 1
              /\ ~Failed(task'[t].res))
             => \A found \in {NotHidden(Found(records, task'[t].op, task'[t].arg))} :
                   /\ Len(found) = 0 =>
                         /\ records' = records
                         /\ IF task'[t].op \in GetOps
                            THEN task'[t].pc = "idle" /\ task'[t].res = Ok(None)
                            ELSE GoesOnToCreate(task'[t])
                   /\ (Len(found) = 1 /\ Decodes(task'[t].op, found[1])) =>
                         /\ ~MoreThanOne(task'[t].res)
                         /\ ~GoesOnToCreate(task'[t])
                         /\ task'[t].res # Ok(None)
                         /\ HasReturned(task'[t]) => Returned(task'[t]).id = IdOf(found[1])
                         /\ task'[t].pc = "slow_resolve" => task'[t].local.id = IdOf(found[1])
          /\ (task'[t].op \in GetOps \cup ObtainOps /\ HasReturned(task'[t]))
             => ~IsHidden(records'[Returned(task'[t]).id])]_vars

\* an obtain_relation has created a relation of a name that a hidden relation of
\* the store has: two records match its search and one of them is hidden
C21_Witness ==
    /\ Ended("t1", "obtain_relation", <<"object_search", "object_create_relation">>)
    /\ task["t1"].res.tag = "Ok"
    /\ Len(Found(records, "obtain_relation", task["t1"].arg)) = 2
    /\ Len(NotHidden(Found(records, "obtain_relation", task["t1"].arg))) = 1
    /\ ~IsHidden(records[task["t1"].res.val.id])

\* the objects of the store that a search by the name alone finds, and those of
\* them that have the type ty
NamedLike(store, name) ==
    search_objects("ObjectUnresolved", store,
                   <<Filter("name", "Like", into_prost_String(name))>>).val

OfType(objects, ty) == SelectSeq(objects, LAMBDA object : object.ty = ty.id)

\* C22: get_object matches on the name together with the type id of the spec.
\* When the search of a get_object or obtain_object is answered, the objects of the
\* requested name that have another type are as if they were not there: with no
\* object of the name and the type a get_object returns None and an obtain_object
\* goes on to create, with one it is returned, and neither is an error.  The
\* create of the obtain_object then adds one record to the store, made of the name
\* and the requested type alone, and returns it: an object of the requested type
\* that has no value of any relation.
C22_ObjectNameAndType ==
    [][\A t \in Tasks :
          /\ (/\ task'[t].op \in {"get_object", "obtain_object"}
              /\ Len(task'[t].sent) = 1
              /\ ~Failed(task'[t].res))
             => \A same \in {OfType(NamedLike(records, task'[t].arg.name), task'[t].arg.ty)} :
                   /\ records' = records
                   /\ Len(same) = 0 =>
                         IF task'[t].op = "get_object"
                         THEN task'[t].pc = "idle" /\ task'[t].res = Ok(None)
                         ELSE task'[t].pc = "create_object"
                   /\ Len(same) = 1 =>
                         /\ HasReturned(task'[t])
                         /\ Returned(task'[t]) = same[1]
          /\ (/\ task[t].op = "obtain_object"
              /\ task[t].pc = "create_object"
              /\ ~Failed(task'[t].res))
             => /\ records' = Append(records,
                                     object_create(records, task[t].arg.ty.unique_key,
                                         [name |-> into_prost_String(task[t].arg.name)]))
                /\ task'[t].res.tag = "Ok"
                /\ task'[t].res.val.id = Len(records')
                /\ task'[t].res.val.name = task[t].arg.name
                /\ task'[t].res.val.ty = task[t].arg.ty.id
                /\ \A k \in 1..Len(KeyToken) :
                      KeyToken[k] \notin DOMAIN task'[t].res.val.relations]_vars

\* an obtain_object for the object o of type Pg has created it in a store where
\* the only object named o had the type Nt
C22_Witness ==
    /\ Ended("t1", "obtain_object", <<"object_search", "object_create">>)
    /\ task["t1"].res.tag = "Ok"
    /\ task["t1"].arg.ty.name = PageName
    /\ Len(NamedLike(records, ObjectName)) = 2
    /\ NamedLike(records, ObjectName)[1].ty = 4
    /\ NamedLike(records, ObjectName)[2] = task["t1"].res.val

\* the visible relations of the store whose name is the given one up to letter case
NamedUpToCase(store, name) ==
    SelectSeq(search_objects("Relation", store, <<>>).val,
              LAMBDA relation : ToLower(relation.name) = ToLower(name))

\* C23: get_relation and obtain_relation match relation names case-insensitively.
\* When the search of a get_relation or obtain_relation is answered while exactly
\* one visible relation has the requested name up to letter case, the call ends at
\* once and the store stays as it is: with the requested format equal to the
\* relation's the relation is returned, and with another format the call fails with
\* the format mismatch that names the existing relation.
C23_RelationNameCase ==
    [][\A t \in Tasks :
          (/\ task'[t].op \in {"get_relation", "obtain_relation"}
           /\ Len(task'[t].sent) = 1
           /\ ~Failed(task'[t].res)
           /\ Len(NamedUpToCase(records, task'[t].arg.name)) = 1)
          => \A existing \in {NamedUpToCase(records, task'[t].arg.name)[1]} :
                /\ task'[t].pc = "idle"
                /\ records' = records
                /\ IF existing.format = task'[t].arg.format
                   THEN HasReturned(task'[t]) /\ Returned(task'[t]) = existing
                   ELSE /\ FormatMismatch(task'[t].res, existing.format, task'[t].arg.format)
                        /\ task'[t].res.err.message.name = existing.name]_vars

\* two names are equal up to letter case
SameNameUpToCase(a, b) == ToLower(a) = ToLower(b)

\* C24: the entity that a get_object_type, obtain_object_type, get_object or
\* obtain_object call returns has the name of the spec up to letter case, and an
\* object has the type id of the spec: no entity whose name only contains the
\* requested name is returned in its place.
C24_ReturnedHasTheName ==
    [][\A t \in Tasks :
          (/\ task'[t].op \in {"get_object_type", "obtain_object_type",
                                "get_object", "obtain_object"}
           /\ task'[t] # task[t]
           /\ HasReturned(task'[t]))
          => /\ SameNameUpToCase(Returned(task'[t]).name, task'[t].arg.name)
             /\ task'[t].op \in {"get_object", "obtain_object"} =>
                   Returned(task'[t]).ty = task'[t].arg.ty.id]_vars

\* the records of a response that the search has to account for
Accounted(op, found) == NotHidden(found)

\* C25: no failure is swallowed during a search.  When the search of a get or
\* obtain call is answered with at least one record that is not hidden, the call
\* does not go on as if nothing had been found: it neither returns None nor goes
\* on to create, for each such record is in the result of the search, decoded, or
\* has made the search return an error.
C25_NothingSwallowed ==
    [][\A t \in Tasks :
          (/\ task'[t].op \in GetOps \cup ObtainOps
           /\ Len(task'[t].sent) = 1
           /\ ~Failed(task'[t].res)
           /\ Len(Accounted(task'[t].op, Found(records, task'[t].op, task'[t].arg))) > 0)
          => /\ task'[t].res # Ok(None)
             /\ ~GoesOnToCreate(task'[t])]_vars

\* two requests of the same RPC are the same request: the filters of a search are
\* compared one by one, key and condition before the value
SameFilter(a, b) ==
    /\ a.relation_key = b.relation_key
    /\ a.condition = b.condition
    /\ ValueEq(a.value, b.value)

SameRequest(rpc, a, b) ==
    IF rpc = "object_search"
    THEN /\ Len(a.filters) = Len(b.filters)
         /\ \A k \in 1..Len(a.filters) : SameFilter(a.filters[k], b.filters[k])
    ELSE a = b

\* the call has sent the same request twice
SentTwice(call) ==
    \E i, j \in 1..Len(call.sent) :
        /\ i < j
        /\ call.sent[i] = call.sent[j]
        /\ SameRequest(call.sent[i], call.wire[i], call.wire[j])

CoreOps == GetOps \cup CreateOps \cup ObtainOps

\* C26: no core operation retries.  Within one get, create or obtain call no RPC is
\* sent twice with the same request; and a step in which the backend or the
\* transport reports an error to the call ends the call with that error, the failed
\* request being the last one the call has sent: the next request of the task is
\* the first one of its next call.
C26_NoRetries ==
    [][\A t \in Tasks :
          task'[t].op \in CoreOps =>
             /\ ~SentTwice(task'[t])
             /\ (task'[t] # task[t] /\ Failed(task'[t].res)) =>
                   /\ task'[t].pc = "idle"
                   /\ task'[t].res.tag = "Err"
                   /\ Len(task'[t].sent) =
                         (IF task[t].pc = "idle" THEN 0 ELSE Len(task[t].sent)) + 1
             /\ (task[t].pc = "idle" /\ task'[t] # task[t]) => Len(task'[t].sent) <= 1]_vars

\* the number of times the call has sent its i-th request
Copies(call, i) ==
    Cardinality({j \in 1..Len(call.sent) :
                    /\ call.sent[j] = call.sent[i]
                    /\ SameRequest(call.sent[i], call.wire[i], call.wire[j])})

\* the requested relations of a create_object_type whose obtain_relation searches
\* with the i-th request of the call
SearchedBy(call, i) ==
    IF call.op \in {"create_object_type", "obtain_object_type"} /\ call.sent[i] = "object_search"
    THEN {relation_spec \in call.arg.recommended_relations :
             SameRequest("object_search", call.wire[i],
                         get_relation_request(relation_spec).request)}
    ELSE {}

\* C26, amended: within one get, create or obtain call no RPC is sent twice with the
\* same request, except that create_object_type sends the search for a relation
\* name once for each requested relation of that name; and a step in which the
\* backend or the transport reports an error to the call ends the call with that
\* error, the failed request being the last one the call has sent.
C26_NoRetriesButSameName ==
    [][\A t \in Tasks :
          task'[t].op \in CoreOps =>
             /\ \A i \in 1..Len(task'[t].sent) :
                   Copies(task'[t], i) <=
                      (IF SearchedBy(task'[t], i) = {} THEN 1
                       ELSE Cardinality(SearchedBy(task'[t], i)))
             /\ (task'[t] # task[t] /\ Failed(task'[t].res)) =>
                   /\ task'[t].pc = "idle"
                   /\ task'[t].res.tag = "Err"
                   /\ Len(task'[t].sent) =
                         (IF task[t].pc = "idle" THEN 0 ELSE Len(task[t].sent)) + 1
             /\ (task[t].pc = "idle" /\ task'[t] # task[t]) => Len(task'[t].sent) <= 1]_vars

\* a create_object_type for Bk with Tag in two formats has sent the search for Tag
\* twice, once for each format, and has ended with the error of its third request
C26_Witness ==
    /\ task["t1"].op = "create_object_type"
    /\ task["t1"].pc = "idle"
    /\ Failed(task["t1"].res)
    /\ Len(task["t1"].sent) = 3
    /\ SentTwice(task["t1"])

\* the record of id in the store is one of an object that is not hidden: there is
\* a record of the id, its layout is Basic or Bookmark and its isHidden is not true
IsObjectRecord(doc) ==
    \E layout \in {"Basic", "Bookmark"} : ValueEq(doc["layout"], LayoutCodeOf(layout))

Listed(store, id) ==
    /\ id \in 1..Len(store)
    /\ IsObjectRecord(store[id])
    /\ ~IsHidden(store[id])

\* the ids that the object holds under the key of an Object relation
ReferencedIds(self, key) ==
    SeqToSet(try_from_prost_Vec_ObjectId(Object_get_kind(self, key).val).val)

\* C27: every Object the library returns is a record of layout Basic or Bookmark
\* that is not hidden.  (a) The object a get_object or an obtain_object returns is
\* such a record of the store.  (b) An Object::get of an Object relation that has
\* a value, when its lookup is answered, returns Some list of objects, never an
\* error or a panic: every object of the list is such a record and one of the
\* referenced ids, and a referenced id whose record has another layout, is hidden
\* or is not in the store is not in the list; when the lookup is not answered the
\* get panics.
C27_ObjectsAreVisibleObjects ==
    [][\A t \in Tasks :
          /\ (task'[t].op \in {"get_object", "obtain_object"} /\ HasReturned(task'[t]))
             => Listed(records', Returned(task'[t]).id)
          /\ (/\ task'[t].op = "get"
              /\ task'[t] # task[t]
              /\ NeedsLookup(task'[t].held, task'[t].arg))
             => \A answered \in {Object_get(task'[t].held, task'[t].arg, records, "ok")} :
                   /\ answered.tag = "Some"
                   /\ answered.val.variant = "Object"
                   /\ \A i \in 1..Len(answered.val.value) :
                         /\ Listed(records, answered.val.value[i].id)
                         /\ answered.val.value[i].id
                               \in ReferencedIds(task'[t].held, task'[t].arg)
                   /\ \A id \in ReferencedIds(task'[t].held, task'[t].arg) :
                         ~Listed(records, id) =>
                            \A i \in 1..Len(answered.val.value) :
                               answered.val.value[i].id # id
                   /\ task'[t].res.tag \in {"Some", "Panic"}
                   /\ task'[t].res.tag = "Some" => task'[t].res = answered]_vars

\* a get of Ref on the object that lists itself, an object type, a hidden object
\* and an id that no record has, has returned the object itself alone
C27_Witness ==
    /\ task["t1"].op = "get"
    /\ task["t1"].res.tag = "Some"
    /\ Cardinality(ReferencedIds(task["t1"].held, task["t1"].arg)) = 4
    /\ Len(records) >= 6
    /\ IsHidden(records[6])
    /\ Len(task["t1"].res.val.value) = 1
    /\ task["t1"].res.val.value[1].id = task["t1"].held.id

\* the operations that run create_object_type, and what one of their calls has
\* sent: a create-object-type request; the search of the sub-call of a spec
TypeOps == {"create_object_type", "obtain_object_type"}

SentCreateType(call) ==
    \E i \in 1..Len(call.sent) : call.sent[i] = "object_create_object_type"

SearchedFor(call, relation_spec) ==
    \E i \in 1..Len(call.sent) :
        /\ call.sent[i] = "object_search"
        /\ SameRequest("object_search", call.wire[i],
                       get_relation_request(relation_spec).request)

\* the ids of the relations that a create-object-type request references
ReferencedBy(request) ==
    try_from_prost_Vec_ObjectId(request.details["recommendedRelations"]).val

\* the relation is one that obtain_relation(relation_spec) returns from the store:
\* a relation of the store that has the name and the format of the spec
Reconciles(store, relation, relation_spec) ==
    /\ relation \in Relations(store)
    /\ relation.name = relation_spec.name
    /\ relation.format = relation_spec.format

\* C28: create_object_type reconciles every requested relation with an
\* obtain_relation of its own and sends the create-object-type request after all of
\* them have succeeded.  (a) A step that sends the create-object-type request is
\* taken when the sub-call of every requested spec is done: each has sent its search
\* and holds a relation of the store that has the name and the format of its spec;
\* the request references the ids of these relations and no other, as many ids as
\* there are requested specs, and it is the only create-object-type request of the
\* call.  (b) A step in which a sub-call fails ends the call with the error of that
\* sub-call (the error of its get_relation, or the error of the RPC), and the call
\* has sent no create-object-type request and sends none.
C28_CreateAfterAllRelations ==
    [][\A t \in Tasks :
          (task'[t].op \in TypeOps /\ task'[t] # task[t]) =>
             /\ (/\ Len(task'[t].sent) > Len(task[t].sent)
                 /\ task[t].pc # "idle"
                 /\ task'[t].sent[Len(task'[t].sent)] = "object_create_object_type")
                => /\ task[t].pc = "create_object_type"
                   /\ ~SentCreateType(task[t])
                   /\ DOMAIN task[t].local = task[t].arg.recommended_relations
                   /\ \A rs \in task[t].arg.recommended_relations :
                         /\ task[t].local[rs].pc = "done"
                         /\ SearchedFor(task[t], rs)
                         /\ Reconciles(records, task[t].local[rs].relation, rs)
                   /\ \A ids \in {ReferencedBy(task'[t].wire[Len(task'[t].wire)])} :
                         /\ SeqToSet(ids) = {task[t].local[rs].relation.id :
                                                rs \in task[t].arg.recommended_relations}
                         /\ Len(ids) = Cardinality(task[t].arg.recommended_relations)
             /\ (task[t].pc = "obtain_relations" /\ task'[t].pc = "idle")
                => /\ task'[t].res.tag = "Err"
                   /\ ~SentCreateType(task'[t])
                   /\ records' = records
                   /\ \E rs \in DOMAIN task[t].local :
                         \/ /\ task[t].local[rs].pc = "get_relation"
                            /\ \/ Failed(task'[t].res)
                               \/ task'[t].res = get_relation(records, rs)
                         \/ /\ task[t].local[rs].pc = "create_relation"
                            /\ Failed(task'[t].res)
             /\ (task[t].pc = "idle" /\ task[t].op \in TypeOps /\ task[t].res.tag = "Err")
                => (SentCreateType(task[t]) =>
                       task[t].sent[Len(task[t].sent)] = "object_create_object_type")]_vars

\* a create_object_type of two relations has succeeded, the sub-call of the second
\* spec having run to its end before the one of the first began
C28_Witness ==
    /\ Ended("t1", "create_object_type",
             <<"object_search", "object_create_relation", "object_search",
               "object_create_object_type">>)
    /\ task["t1"].res.tag = "Ok"
    /\ task["t1"].arg.recommended_relations = {DueDate, TagAny}
    /\ SameRequest("object_search", task["t1"].wire[1], get_relation_request(TagAny).request)
    /\ SameRequest("object_search", task["t1"].wire[3], get_relation_request(DueDate).request)
    /\ Len(ReferencedBy(task["t1"].wire[4])) = 2

\* the requested relations that the call has created: the create-relation requests
\* it has sent before its last request
CreatedBy(call) ==
    {rs \in call.arg.recommended_relations :
        \E i \in 1..(Len(call.sent) - 1) :
            /\ call.sent[i] = "object_create_relation"
            /\ call.wire[i] = object_create_relation_request(rs).request}

\* the call has failed on one of its relations: it has ended with an error before
\* any create-object-type request
FailedOnRelation(call) ==
    /\ call.op \in TypeOps
    /\ call.pc = "idle"
    /\ call.res.tag = "Err"
    /\ ~SentCreateType(call)

\* C29: a create_object_type or obtain_object_type that fails on one of its
\* relations creates no object type and rolls nothing back.  (a) The step in which
\* a sub-call fails sends no create-object-type request and leaves the store as it
\* is: the relations that the other sub-calls hold, created ones included, are
\* relations of the store.  (b) No step of the call removes a record.  (c) An
\* obtain_relation that follows the failed call, for a relation spec that the
\* failed call has created, and whose search is answered, is a hit of its get: it
\* sends the search alone, leaves the store as it is and returns the relation of
\* the store that has the name and the format of the spec.
C29_NothingRolledBack ==
    [][\A t \in Tasks :
          /\ (/\ task[t].op \in TypeOps
              /\ task[t].pc = "obtain_relations"
              /\ task'[t].pc = "idle")
             => /\ FailedOnRelation(task'[t])
                /\ records' = records
                /\ \A rs \in DOMAIN task[t].local :
                      task[t].local[rs].pc = "done" =>
                         Reconciles(records', task[t].local[rs].relation, rs)
          /\ task'[t].op \in TypeOps
             => /\ Len(records') >= Len(records)
                /\ SubSeq(records', 1, Len(records)) = records
          /\ (/\ FailedOnRelation(task[t])
              /\ task'[t] # task[t]
              /\ task'[t].op = "obtain_relation"
              /\ task'[t].arg \in CreatedBy(task[t])
              /\ ~Failed(task'[t].res))
             => /\ Ended(t, "obtain_relation", <<"object_search">>)'
                /\ task'[t].res.tag = "Ok"
                /\ records' = records
                /\ Reconciles(records, task'[t].res.val, task'[t].arg)]_vars

\* the kind of Value that a value of the format is written as
WireKind(relation_format) ==
    CASE relation_format.format \in {"Text", "Url", "Email", "Phone"} -> "String"
      [] relation_format.format \in {"Number", "Date"} -> "Number"
      [] relation_format.format = "Checkbox" -> "Bool"
      [] relation_format.format = "Object" -> "List"

\* every value that an object of the store holds under the key of a relation of
\* the store has the kind of the relation's format
StoredKinds(store) ==
    \A i \in 1..Len(store) :
        IsObjectRecord(store[i]) =>
           \A relation \in Relations(store) :
              relation.relation_key[1] \in DOMAIN store[i] =>
                 store[i][relation.relation_key[1]].kind = WireKind(relation.format)

\* the conversion of Object::get for the relation succeeds on the object: the
\* value it holds under the key, if any, decodes as the format asks
Converts(self, key) ==
    \A kind \in {Object_get_kind(self, key)} :
        kind.tag = "Some" =>
           IF key.format.format = "Object"
           THEN try_from_prost_Vec_ObjectId(kind.val).tag = "Ok"
           ELSE Object_get_scalar(key, kind.val).tag = "Some"

\* C30: with create_object and Object::set the only writers of relation values,
\* in every state each value that an object of the store holds under the key of a
\* relation has the wire kind of the relation's format (String for Text, Url,
\* Email and Phone, Number for Number and Date, Bool for Checkbox, List for
\* Object), and so has each value of an object that a caller holds; the
\* conversions of Object::get succeed on them, and a get or the get of a set
\* panics only when the lookup of the objects of an Object relation is not
\* answered.
C30_StoredKindsMatchFormats ==
    /\ StoredKinds(records)
    /\ \A t \in Tasks :
          /\ task[t].held.id # 0 =>
                \A relation \in Relations(records) :
                   /\ Converts(task[t].held, relation)
                   /\ Converts(BackendObject(records, task[t].held.id), relation)
          /\ (task[t].op \in {"get", "set"} /\ task[t].res.tag = "Panic")
             => /\ Len(task[t].sent) = 1
                /\ task[t].sent[1] = "object_search"
                /\ Object_get(task[t].held,
                              IF task[t].op = "get" THEN task[t].arg ELSE task[t].arg.key,
                              records, "ok").tag = "Some"

\* a set has replaced a value of the relation on the object the task holds, after
\* which the object holds, in the store, a value of the kind of the format
C30_Witness ==
    /\ Ended("t1", "set", <<"set_relation_value">>)
    /\ task["t1"].res.tag = "Ok"
    /\ task["t1"].res.val.tag = "Some"
    /\ task["t1"].arg.key.relation_key[1] \in DOMAIN records[task["t1"].held.id]
    /\ records[task["t1"].held.id][task["t1"].arg.key.relation_key[1]].kind =
          WireKind(task["t1"].arg.key.format)
    /\ task["t1"].arg.key.format.format = "Date"

\* C31: the error of get_object_type over different recommended relations reports
\* both sets under their labels.  A step that ends the lookup of a get_object_type
\* or of an obtain_object_type with that error carries the set of the caller's spec
\* as the requested recommended relations, and the (name, format) pairs resolved
\* from the type that exists as the received ones.
C31_MismatchLabels ==
    [][\A t \in Tasks :
          (/\ task[t].pc = "slow_resolve"
           /\ task'[t].pc = "idle"
           /\ DifferentRelations(task'[t].res))
          => /\ task'[t].res.err.message.requested = task[t].arg.recommended_relations
             /\ task'[t].res.err.message.received = ResolvedSpecs(records, task[t].local)]_vars

\* the kind of Value that the type is decoded from
KindFor(T) ==
    CASE T = "String" -> "String"
      [] T = "f64" -> "Number"
      [] T = "bool" -> "Bool"
      [] T \in {"Vec_ObjectId", "BTreeSet_ObjectId"} -> "List"

IsMissing(res, field) ==
    /\ res.tag = "Err"
    /\ res.err.error = "MissingStructField"
    /\ res.err.field = field

\* C32: take removes the field and decodes it.  Every take or take_optional of a
\* field leaves the document without the field and with every other field as it
\* was.  On an absent field take fails with MissingStructField of the field and
\* take_optional returns None; on a present field both decode its value as the
\* type asks (a value without a kind is KindIsEmpty, a value of another kind is
\* IncorrecKind, and neither is MissingStructField), take_optional returning Some
\* of what take returns and the same errors.  A take that follows a take of the
\* same field, whatever that one returned, is a take of an absent field.
C32_TakeRemoves ==
    [][\A t \in Tasks :
          task'[t].op \in {"take", "take_optional"} =>
             \A doc \in {records[1]} : \A field \in {task'[t].arg.field} :
                /\ DOMAIN records'[1] = (DOMAIN doc) \ {field}
                /\ \A f \in DOMAIN records'[1] :
                      records'[1][f].kind = doc[f].kind /\ records'[1][f] = doc[f]
                /\ field \notin DOMAIN doc =>
                      IF task'[t].op = "take"
                      THEN IsMissing(task'[t].res, field)
                      ELSE task'[t].res = Ok(None)
                /\ field \in DOMAIN doc =>
                      /\ ~IsMissing(task'[t].res, field)
                      /\ doc[field].kind = "Empty" => task'[t].res = Err(KindIsEmpty)
                      /\ doc[field].kind \notin {"Empty", KindFor(task'[t].arg.T)} =>
                            task'[t].res =
                               Err(IncorrecKind(KindFor(task'[t].arg.T), doc[field].kind))
                      /\ \A taken \in {ProstStruct_take(doc, task'[t].arg.T, field).result} :
                            /\ task'[t].res.tag = taken.tag
                            /\ taken.tag = "Err" => task'[t].res = taken
                            /\ taken.tag = "Ok" =>
                                  IF task'[t].op = "take" THEN task'[t].res = taken
                                  ELSE task'[t].res = Ok(Some(taken.val))
                /\ (task[t].op \in {"take", "take_optional"} /\ task[t].arg.field = field) =>
                      field \notin DOMAIN doc]_vars

\* a take of name has failed with MissingStructField after name was taken, and
\* the fields that were not taken are in the document
C32_Witness ==
    /\ task["t1"].op = "take"
    /\ IsMissing(task["t1"].res, "name")
    /\ DOMAIN records[1] = (DOMAIN TakeDoc) \ {"name"}

\* the fields that the decoder of an Object takes
ObjectFields == {"layout", "id", "name", "type"}

\* C33: decoding a record into an Object consumes the fields layout, id, name and
\* type and no other.  The object that a get_object, an obtain_object or a
\* create_object returns has for its relations every other field of its record,
\* with the value the record has, and none of the four fields.
C33_RelationBag ==
    [][\A t \in Tasks :
          (/\ task'[t].op \in {"get_object", "obtain_object", "create_object"}
           /\ HasReturned(task'[t]))
          => \A doc \in {records'[Returned(task'[t]).id]} :
             \A relations \in {Returned(task'[t]).relations} :
                /\ DOMAIN relations = (DOMAIN doc) \ ObjectFields
                /\ ObjectFields \subseteq DOMAIN doc
                /\ \A f \in DOMAIN relations :
                      /\ relations[f].kind = doc[f].kind
                      /\ relations[f] = doc[f]]_vars

\* a get_object has returned an object that has a value of Due and a value of
\* Ref: its relations are these two and the space id
C33_Witness ==
    /\ task["t1"].op = "get_object"
    /\ HasReturned(task["t1"])
    /\ DOMAIN task["t1"].res.val.val.relations =
          {Due.relation_key[1], Ref.relation_key[1], "spaceId"}

\* the outcome of the decode of one element of a list of ids, and the elements of
\* a list that do not decode
ElementOutcome(value) ==
    IF value.kind = "Empty" THEN Err(KindIsEmpty) ELSE try_from_prost_ObjectId(value)

Failing(values) == {i \in 1..Len(values) : ElementOutcome(values[i]).tag # "Ok"}

\* C34: the decoders of the wire values.  A take of a field that has a value with
\* a kind decodes it: as a String, an f64 or a bool it returns the payload of a
\* value of that kind as it is, and fails with IncorrecKind of the expected and
\* the received kind for a value of any other kind, never a panic and never a
\* value made from another kind; as a Vec or a BTreeSet it fails with IncorrecKind
\* for a value that is no list, and for a list it returns every element decoded
\* (in the order of the list; as a set) when all of them decode, and otherwise
\* the outcome of the first element that does not: KindIsEmpty for an element
\* without a kind, IncorrecKind for one of another kind.
C34_Decoders ==
    [][\A t \in Tasks :
          (/\ task'[t].op = "take"
           /\ task'[t].arg.field \in DOMAIN records[1]
           /\ records[1][task'[t].arg.field].kind # "Empty")
          => \A value \in {records[1][task'[t].arg.field]} :
             \A T \in {task'[t].arg.T} : \A res \in {task'[t].res} :
                /\ value.kind # KindFor(T) =>
                      /\ res.tag = "Err"
                      /\ res.err = IncorrecKind(KindFor(T), value.kind)
                /\ (value.kind = KindFor(T) /\ KindFor(T) # "List") =>
                      /\ res.tag = "Ok"
                      /\ res.val = value.val
                /\ (value.kind = KindFor(T) /\ KindFor(T) = "List") =>
                      IF Failing(value.val) = {}
                      THEN /\ res.tag = "Ok"
                           /\ T = "Vec_ObjectId" =>
                                 /\ Len(res.val) = Len(value.val)
                                 /\ \A i \in 1..Len(value.val) :
                                       res.val[i] = ElementOutcome(value.val[i]).val
                           /\ T = "BTreeSet_ObjectId" =>
                                 res.val = {ElementOutcome(value.val[i]).val :
                                               i \in 1..Len(value.val)}
                      ELSE \A first \in {CHOOSE i \in Failing(value.val) :
                                            \A j \in Failing(value.val) : i <= j} :
                              /\ res.tag = ElementOutcome(value.val[first]).tag
                              /\ res = ElementOutcome(value.val[first])
                              /\ value.val[first].kind = "Empty" => res = Err(KindIsEmpty)
                              /\ value.val[first].kind \notin {"Empty", "String"} =>
                                    res = Err(IncorrecKind("String", value.val[first].kind))]_vars

\* a take of a list whose second element is a number and whose third has no kind
\* has failed with the error of the second
C34_Witness ==
    /\ task["t1"].op = "take"
    /\ task["t1"].arg = [field |-> "featuredRelations", T |-> "Vec_ObjectId"]
    /\ task["t1"].res = Err(IncorrecKind("String", "Number"))

\* the layout that the number is the code of, if it is the code of one
IsLayout(n) == \E layout \in DOMAIN LayoutCode : LayoutCode[layout] = n

LayoutOf(n) == CHOOSE layout \in DOMAIN LayoutCode : LayoutCode[layout] = n

\* C35: the decoders of Relation, ObjectType and Object read the layout first.
\* (a) Whatever the other fields of the record are, the decode of a record
\* without a layout fails with MissingStructField, the decode of one whose layout
\* is no number fails with IncorrecKind (KindIsEmpty for a layout without a kind)
\* and the decode of one whose layout is the code of no layout fails with
\* InvalidEnumValue: these are errors.  The decode of a record whose layout is a
\* layout that the kind does not expect panics, and the one of a record of an
\* expected layout does not.  (b) Every record that the backend answers the
\* search of a get with has a layout that the kind of the get expects, and no get
\* ends with a panic.
C35_LayoutFirst ==
    [][\A t \in Tasks :
          /\ task'[t].op = "try_from_prost" =>
                \A input \in {task'[t].arg.input} : \A res \in {task'[t].res} :
                   /\ "layout" \notin DOMAIN input =>
                         (res.tag = "Err" /\ res.err = MissingStructField("layout"))
                   /\ "layout" \in DOMAIN input =>
                         \A layout \in {input["layout"]} :
                            /\ layout.kind = "Empty" =>
                                  (res.tag = "Err" /\ res.err = KindIsEmpty)
                            /\ layout.kind \notin {"Empty", "Number"} =>
                                  /\ res.tag = "Err"
                                  /\ res.err = IncorrecKind("Number", layout.kind)
                            /\ layout.kind = "Number" =>
                                  IF ~IsLayout(layout.val)
                                  THEN /\ res.tag = "Err"
                                       /\ res.err = InvalidEnumValue(layout.val)
                                  ELSE IF LayoutOf(layout.val) \in
                                             SeqToSet(LAYOUT(task'[t].arg.O))
                                       THEN res.tag \in {"Ok", "Err"}
                                       ELSE res = Panic
          /\ (task'[t].op \in GetOps /\ Len(task'[t].sent) = 1 /\ ~Failed(task'[t].res))
             => /\ task'[t].res.tag # "Panic"
                /\ \A found \in {Found(records, task'[t].op, task'[t].arg)} :
                   \A i \in 1..Len(found) :
                      /\ "layout" \in DOMAIN found[i]
                      /\ found[i]["layout"].kind = "Number"
                      /\ IsLayout(found[i]["layout"].val)
                      /\ LayoutOf(found[i]["layout"].val)
                            \in SeqToSet(LAYOUT(KindOf(task'[t].op)))
                      /\ try_from_prost(KindOf(task'[t].op),
                                        RemoveField(found[i], "isHidden")).tag # "Panic"]_vars

\* the decode of a record that has no id and the layout of another kind has
\* panicked
C35_Witness ==
    /\ task["t1"].op = "try_from_prost"
    /\ task["t1"].res = Panic
    /\ "id" \notin DOMAIN task["t1"].arg.input
    /\ task["t1"].arg.O = "ObjectUnresolved"
    /\ task["t1"].arg.input["layout"] = LayoutCodeOf("Set")

\* the event has an AccountShow among its messages
HasAccountShow(event) ==
    \E i \in 1..Len(event) :
        /\ event[i].value.tag = "Some"
        /\ event[i].value.val.kind = "AccountShow"

\* the call of task t has sent the request rpc
HasSent(t, rpc) == \E k \in 1..Len(task[t].sent) : task[t].sent[k] = rpc

\* the listener is spawned once the token is there and before account_recover is
\* sent
ListenerStartedBetween ==
    task["t1"].op = "authenticate" =>
        /\ task[event_listener_task].op = "event_listener" =>
              /\ HasSent("t1", "wallet_create_session")
              /\ task["t1"].pc # "wallet_create_session"
        /\ HasSent("t1", "account_recover") => task[event_listener_task].op = "event_listener"

\* no event with an AccountShow was sent by the backend while the session had no
\* stream to receive it
NoAccountShowMissed ==
    task["t1"].op = "authenticate" =>
        \A i \in 1..Len(records[1].missed) : ~HasAccountShow(records[1].missed[i])

\* the first AccountShow with an account that the listener forwarded has been taken
\* from the channel, and account_select asks for its account
SelectsShownAccount ==
    \A k \in 1..Len(task["t1"].sent) :
        task["t1"].sent[k] = "account_select" =>
            \E i \in 1..(Len(records[1].forwarded) - Len(records[1].queue)) :
                /\ records[1].forwarded[i].account.tag = "Some"
                /\ records[1].forwarded[i].account.val.id = task["t1"].wire[k].id
                /\ \A j \in 1..(i - 1) : records[1].forwarded[j].account.tag = "None"

\* authenticate, waiting at a channel that is empty and closed, ends with the
\* internal error and has not sent account_select
ClosedChannelFails ==
    (/\ task["t1"].pc = "wait_account_id_event"
     /\ recv(records[1]).tag = "None"
     /\ task'["t1"].pc # task["t1"].pc)
        => /\ task'["t1"].pc = "idle"
           /\ task'["t1"].res = QueueClosed
           /\ ~HasSent("t1", "account_select")'

\* C36: in authenticate the event listener is started after the session token is
\* obtained and before account_recover is sent, so that no AccountShow event is
\* missed; account_select is sent only after an AccountShow event with an account
\* has been received, and with the id of that account; when the event channel
\* closes first, authenticate fails with an internal error and never sends
\* account_select.
C36_AuthenticateWaitsForAccountShow ==
    /\ [](ListenerStartedBetween /\ NoAccountShowMissed /\ SelectsShownAccount)
    /\ [][ClosedChannelFails]_vars

\* the message carries an AccountShow
IsAccountShow(message) ==
    /\ message.value.tag = "Some"
    /\ message.value.val.kind = "AccountShow"

\* the task t holds an AuthorizedAnytypeClient
HoldsClient(t) == task[t].held # NoObject

\* what the listener has sent into the channel are the AccountShow values of the
\* messages it has handled, in their order, and the channel holds the last of them
ForwardsAccountShowsInOrder ==
    \E shows \in {SelectSeq(records[1].seen, IsAccountShow)} :
        /\ Len(records[1].forwarded) = Len(shows)
        /\ \A i \in 1..Len(shows) : records[1].forwarded[i] = shows[i].value.val
        /\ Len(records[1].queue) <= Len(shows)
        /\ records[1].queue = SubSeq(records[1].forwarded,
                                     Len(shows) - Len(records[1].queue) + 1, Len(shows))

\* the listener runs while the client is held, and is aborted once it is dropped
RunsUntilDropped ==
    /\ HoldsClient("t1") => Running(task[event_listener_task])
    /\ task["t1"].op = "drop" => task[event_listener_task].pc = "aborted"

\* the listener runs while the client is held unless it has panicked, which it can
\* have only for a client of create_account; once the client is dropped it is
\* aborted or has panicked
RunsUntilDroppedOrPanicked ==
    /\ (HoldsClient("t1") /\ task["t1"].op = "authenticate")
          => Running(task[event_listener_task])
    /\ HoldsClient("t1")
          => \/ Running(task[event_listener_task])
             \/ task[event_listener_task].pc = "panicked"
    /\ task["t1"].op = "drop" => task[event_listener_task].pc \in {"aborted", "panicked"}

\* the listener panics only when its listen_session_events fails, or on a send
\* into a channel whose receiver is gone; it is aborted only by the drop of the
\* client
EndsByPanicOrDrop ==
    /\ (Running(task[event_listener_task]) /\ task'[event_listener_task].pc = "panicked")
          => \/ task[event_listener_task].pc = "listen_session_events"
             \/ ~records[1].receiver
    /\ (Running(task[event_listener_task]) /\ task'[event_listener_task].pc = "aborted")
          => HoldsClient("t1") /\ task'["t1"].op = "drop"

====
